---- MODULE Spec2Model ----
(***************************************************************************)
(* Match ingestion and retention of the scuttle-api backend.               *)
(*                                                                         *)
(* The relational store is modelled table by table: a table without a      *)
(* natural primary key is a bag of rows (the surrogate "id" column carries *)
(* no information), a table with one is a set or a function.  The clock    *)
(* and every timestamp are whole seconds; the code holds milliseconds      *)
(* (Date.now(), game_start_timestamp), so a model value t stands for the   *)
(* code's 1000 * t.                                                        *)
(***************************************************************************)
EXTENDS Integers, Sequences, FiniteSets, Bags, TLC

(***************************************************************************)
(* Program constants.                                                      *)
(***************************************************************************)
DEFAULT_FETCH_DAYS == 30
RECENT_CACHE_DAYS == 1
DAYS_PER_BATCH == 5
RANKED_SOLO_QUEUE_ID == 420
ARENA_QUEUE_ID == 1700
QUEUE_IDS_TO_CACHE == <<420, 1700>>
SecPerDay == 86400

(***************************************************************************)
(* Bounds of the model.                                                    *)
(***************************************************************************)
MaxTicks == 3
MaxRuns == 2
MaxIds == 2
MaxOverlapIds == 1
MaxStat == 1
MaxRankValue == 2
MaxCommands == 2
MaxRiotIdLen == 4
MaxCacheLogs == 2

TickSec == SecPerDay \div 2
Epoch0 == 100 * SecPerDay

Runs == {1, 2}
Puuids == {"P1", "P2"}
MatchIds == {"M1", "M2"}
GuildIds == {7}
\* the external guild ids of the registration requests
RegistryGuildIds == {7, 8}
GuildName == "Rift"
\* the configured shared secret, the x-api-key values a request may carry
\* (NoHeader: the header is absent), and the values of a missing field
API_KEY == "secret"
NoHeader == "<undefined>"
ApiKeys == {NoHeader, "", API_KEY, "wrong"}
NoRiotId == ""
NoGuildId == 0
\* the API clients that may have a model call in flight at the same time
Callers == {1, 2}
\* queue ids a match detail can carry: the two cached queues and Ranked Flex
UpstreamQueueIds == {420, 440, 1700}
\* retention periods the age purge is called with: the daily job's 31 days
\* and a shorter one
PurgeDays == {31, 10}
\* game start times a match detail can carry: 40 and 10 days before Epoch0
OldStart == Epoch0 - 40 * SecPerDay
RecentStart == Epoch0 - 10 * SecPerDay
NoPuuid == "none"
NoRegion == "none"
\* Riot ids known to the upstream account endpoint, with their account
RiotIdPuuid == [id \in {"Ann #NA1", "Bob #KR", "Cid #EUW"} |->
                   CASE id = "Ann #NA1" -> "P1"
                     [] id = "Bob #KR" -> "P2"
                     [] OTHER -> "P3"]
\* the Riot ids of the registration requests
RiotIds == {"Ann #NA1", "Bob #KR"}
PuuidRegion == [p \in {"P1", "P2", "P3"} |->
                   CASE p = "P1" -> "na1" [] p = "P2" -> "kr"
                     [] OTHER -> "euw1"]

VARIABLES now, guilds, summoners, guildSummoners, rankedSoloMatches,
          arenaMatches, cacheLogs, runs, runsStarted, purge, lastOp,
          calls, process, report, commandInvocations, riot

\* the model calls in flight, the scheduler's process, the report under
\* construction, the command_invocations table and the Riot id lookup
svcVars == <<calls, process, report, commandInvocations, riot>>

vars == <<now, guilds, summoners, guildSummoners, rankedSoloMatches,
          arenaMatches, cacheLogs, runs, runsStarted, purge, lastOp,
          calls, process, report, commandInvocations, riot>>

(***************************************************************************)
(* Helpers on sequences and bags.                                          *)
(***************************************************************************)
Min(a, b) == IF a < b THEN a ELSE b

Range(s) == {s[i] : i \in 1..Len(s)}

SeqsUpTo(S, n) == UNION {[1..k -> S] : k \in 0..n}

\* every ordering of a finite set, as sequences without repetition
Orderings(S) == {s \in [1..Cardinality(S) -> S] : Range(s) = S}

BagAdd(B, row) == B (+) SetToBag({row})

\* the bag B restricted to the elements of the set S
BagRestrict(B, S) == [x \in BagToSet(B) \cap S |-> B[x]]

(***************************************************************************)
(* The relational store.                                                   *)
(***************************************************************************)
\* a match table without its unique index
MatchKeyFreeNoIndex(table, row) == TRUE

\* UNIQUE(match_id, summoner_puuid) of a match table: no stored row has the key
MatchKeyFree(table, row) ==
    \A r \in BagToSet(table) :
        ~(r.match_id = row.match_id /\ r.summoner_puuid = row.summoner_puuid)

\* prisma.<matchTable>.create: the insert is rejected when the unique index
\* is violated or when the store fails (dbOk = FALSE)
CreateMatchRow(table, row, dbOk) ==
    IF dbOk /\ MatchKeyFree(table, row)
    THEN [ok |-> TRUE, table |-> BagAdd(table, row)]
    ELSE [ok |-> FALSE, table |-> table]

\* prisma.<matchTable>.deleteMany({where}), matching being the rows the
\* where clause selects: the rows kept and the count deleted
DeleteMany(table, matching) ==
    LET kept == BagRestrict(table, BagToSet(table) \ matching)
    IN [table |-> kept, count |-> BagCardinality(table) - BagCardinality(kept)]

(***************************************************************************)
(* Reading match rows: the match route and the stat models.                *)
(***************************************************************************)
\* a read that also removes the rows it returns
findManyConsuming(table, matching) ==
    [table |-> DeleteMany(table, matching).table,
     rows |-> BagRestrict(table, matching)]

\* prisma.<matchTable>.findMany({where}), matching being the rows the where
\* clause selects: the table as it is left, and the rows returned
findMany(table, matching) ==
    [table |-> table, rows |-> BagRestrict(table, matching)]

\* where: { summoner_puuid, game_start_timestamp: { gte } }
sinceWhere(table, puuid, startEpoch) ==
    {row \in BagToSet(table) :
        row.summoner_puuid = puuid /\ row.game_start_timestamp >= startEpoch}

\* fetchMatches of the handler of a queue key, and
\* fetchAllSummonerMatchDataByRange, which reads the Arena table for "arena"
\* and the Ranked-Solo table for every other key
readMatches(toArena, puuid, startEpoch, ranked, arena) ==
    LET read == findMany(IF toArena THEN arena ELSE ranked,
                         sinceWhere(IF toArena THEN arena ELSE ranked,
                                    puuid, startEpoch))
    IN [ranked |-> IF toArena THEN ranked ELSE read.table,
        arena |-> IF toArena THEN read.table ELSE arena,
        rows |-> read.rows]

(***************************************************************************)
(* Local time.  The code computes "n days ago" with Date.setDate, that is  *)
(* on the calendar of the host's time zone: the same wall-clock time n     *)
(* calendar days earlier.  A zone is UTC plus `before` seconds up to the  *)
(* instant `change` and UTC plus `after` seconds from then on.             *)
(***************************************************************************)
SecPerHour == SecPerDay \div 24

UTC == [change |-> 0, before |-> 0, after |-> 0]

\* clocks are set back one hour a quarter day after the first instant of
\* the model
ClocksBack == [change |-> Epoch0 + SecPerDay \div 4,
               before |-> 0, after |-> 0 - SecPerHour]

\* clocks are set forward one hour at the same instant
ClocksForward == [change |-> Epoch0 + SecPerDay \div 4,
                  before |-> 0 - SecPerHour, after |-> 0]

\* clocks were set forward one hour five days before the first instant of
\* the model, the skipped hour holding that instant's time of day
ClocksForwardEarlier ==
    [change |-> Epoch0 - DAYS_PER_BATCH * SecPerDay + SecPerHour \div 2,
     before |-> 0, after |-> SecPerHour]

Zones == {UTC, ClocksBack, ClocksForward, ClocksForwardEarlier}

\* the offset of local time from UTC at the instant t
offsetAt(t, tz) == IF t < tz.change THEN tz.before ELSE tz.after

\* what the local clock shows at the instant t
wallClock(t, tz) == t + offsetAt(t, tz)

\* the instant of a local time: a local time that the clocks showed twice
\* or skipped is taken with the offset in force before the change
utcOf(local, tz) ==
    IF local - tz.before < tz.change THEN local - tz.before
    ELSE IF local - tz.after >= tz.change THEN local - tz.after
    ELSE local - tz.before

\* d.setDate(d.getDate() - days): the same local time of day, days calendar
\* days earlier
setDateDaysBack(t, days, tz) == utcOf(wallClock(t, tz) - days * SecPerDay, tz)

(***************************************************************************)
(* Summoner model.                                                         *)
(***************************************************************************)
\* getUniqueSummoners: every row of the summoners table
getUniqueSummoners(summonerTable) ==
    {[name |-> summonerTable[p].name, puuid |-> p,
      region |-> summonerTable[p].region] : p \in DOMAIN summonerTable}

\* cutoffDate of checkIfCachedWithinRange, computed when the function is
\* called: the local time of the clock, range calendar days earlier
cutoffDateOf(clock, range, tz) == setDateDaysBack(clock, range, tz)

\* checkIfCachedWithinRange, the findFirst it awaits: a cache-log row of the
\* summoner with cached_at >= cutoffDate
checkIfCachedWithinRange(puuid, cutoffDate, logs) ==
    \E l \in BagToSet(logs) :
       l.summoner_puuid = puuid /\ l.cached_at >= cutoffDate

\* a cache log that keeps one row per summoner, replacing the older one
updateCachedTimestampInPlace(puuid, logs, clock) ==
    BagAdd(BagRestrict(logs, {l \in BagToSet(logs) :
                                 l.summoner_puuid # puuid}),
           [summoner_puuid |-> puuid, cached_at |-> clock])

\* updateCachedTimestamp: one more cache-log row, cached_at defaults to now
updateCachedTimestamp(puuid, logs, clock) ==
    BagAdd(logs, [summoner_puuid |-> puuid, cached_at |-> clock])

(***************************************************************************)
(* Match ingestion.                                                        *)
(***************************************************************************)
\* getNewMatchIds looking at the Ranked-Solo table only
getNewMatchIdsRankedOnly(matchIds, rankedMatches, arenaMatchIds) ==
    LET existingIds == rankedMatches
    IN SelectSeq(matchIds, LAMBDA id : id \notin existingIds)

\* getNewMatchIds once its two reads have answered: the ids that neither
\* read has found
getNewMatchIds(matchIds, rankedMatches, arenaMatchIds) ==
    LET existingIds == rankedMatches \cup arenaMatchIds
    IN SelectSeq(matchIds, LAMBDA id : id \notin existingIds)

\* one of the two reads of getNewMatchIds, findMany({ where: { match_id:
\* { in: matchIds }, summoner_puuid }, select: { match_id } }): the ids of
\* the rows found
findStoredIds(table, matchIds, summonerPuuid) ==
    {row.match_id : row \in
        {x \in BagToSet(table) : /\ x.match_id \in Range(matchIds)
                                 /\ x.summoner_puuid = summonerPuuid}}

\* the two match tables, by the name of their queue
MatchTables == {"ranked_solo", "arena"}

\* the row both save functions build from a match detail
MatchRow(matchData, summonerPuuid) ==
    [match_id |-> matchData.matchId,
     summoner_puuid |-> summonerPuuid,
     queue_id |-> matchData.queueId,
     game_start_timestamp |-> matchData.gameStartTimestamp]

\* saveMatchData / saveArenaMatchData: fail when the summoner is not among
\* the participants, else insert the row
saveMatchData(matchData, summonerPuuid, table, dbOk) ==
    IF summonerPuuid \notin matchData.participants
    THEN [ok |-> FALSE, table |-> table]
    ELSE CreateMatchRow(table, MatchRow(matchData, summonerPuuid), dbOk)

\* the table chosen by the queue id of the ids request
actualIsArenaByRequest(matchData, requestedQueueId) == requestedQueueId = 1700

\* the table processSummonerMatches saves a fetched match to
actualIsArena(matchData, requestedQueueId) == matchData.queueId = 1700

\* daysToFetch of processSummonerMatches
daysToFetchFor(cachedRecently) ==
    IF cachedRecently THEN RECENT_CACHE_DAYS ELSE DEFAULT_FETCH_DAYS

\* batchDays with Math.max in place of Math.min
batchDaysOfMax(daysFetched, daysToFetch) ==
    IF DAYS_PER_BATCH > daysToFetch - daysFetched
    THEN DAYS_PER_BATCH ELSE daysToFetch - daysFetched

\* batchDays of one iteration of the batch loop
batchDaysOf(daysFetched, daysToFetch) ==
    Min(DAYS_PER_BATCH, daysToFetch - daysFetched)

\* [startTimestamp, endTimestamp] of one iteration of the batch loop
batchWindow(clock, daysFetched, batchDays, tz) ==
    LET endTime == setDateDaysBack(clock, daysFetched, tz)
        startTime == setDateDaysBack(endTime, batchDays, tz)
    IN [startTimestamp |-> startTime, endTimestamp |-> endTime]

IdleRun ==
    [pc |-> "idle", roster |-> <<>>, queueIds |-> <<>>, si |-> 0, qi |-> 0,
     daysToFetch |-> 0, daysFetched |-> 0, newIds |-> <<>>, mi |-> 0,
     nBatches |-> 0, firstEnd |-> 0, prevStart |-> 0,
     curStart |-> 0, curEnd |-> 0, logged |-> <<>>, ids |-> <<>>,
     pending |-> "none", rankedMatches |-> {}, arenaMatchIds |-> {},
     checkedAt |-> 0, cutoffDate |-> 0]

\* a caller with no model call in flight
IdleCall == [op |-> "none"]

\* the three scheduled tasks, by the function each one calls
Tasks == {"cacheMatchData", "deleteMatchesOlderThan",
          "deleteMatchesForRemovedSummoners"}

\* the process after initCronJobs on a host in time zone tz: alive, the
\* three tasks scheduled
RunningProcessIn(tz) == [alive |-> TRUE, scheduled |-> Tasks, tz |-> tz]

RunningProcess == RunningProcessIn(UTC)

\* a cron callback without its try/catch: the rejection is unhandled and
\* ends the process
cronNoCatch(proc, task) == [proc EXCEPT !.alive = FALSE]

\* the catch block of a cron callback: the error is logged, nothing else
cronCatch(proc, task) == proc

\* no Riot id lookup is being made
NoLookup == [pc |-> "idle"]

\* no report was asked for
NoReport == [pc |-> "none"]

IdlePurge == [pc |-> "idle", kind |-> "none", days |-> 0, calledAt |-> 0,
              cutoff |-> 0, active |-> {}, tracked |-> {}, rankedCount |-> 0]

\* the "info" parts of the match details an upstream answers with
DetailInfos(queueIds, gameStarts, participantSets) ==
    [queueId : queueIds, gameStartTimestamp : gameStarts,
     participants : participantSets]

\* processSummonerMatches is called: checkIfCachedWithinRange reads the
\* clock, fixes cutoffDate and sends its findFirst; all of it runs before
\* the await
StartCheck(run, clock, tz) ==
    [run EXCEPT !.pc = "check", !.checkedAt = clock,
                !.cutoffDate = cutoffDateOf(clock, RECENT_CACHE_DAYS, tz)]

\* where the run stands once the cache-log row of its summoner is written:
\* the first queue of the next summoner, or the end of the run
AfterSummoner(run, clock, tz) ==
    IF run.si < Len(run.roster)
    THEN StartCheck([run EXCEPT !.si = run.si + 1, !.qi = 1,
                                !.nBatches = 0, !.firstEnd = 0,
                                !.prevStart = 0, !.curStart = 0,
                                !.curEnd = 0, !.daysToFetch = 0,
                                !.daysFetched = 0], clock, tz)
    ELSE IdleRun

\* updateCachedTimestamp inside the queue loop
AfterQueueLogEach(run, clock, tz) == [run EXCEPT !.pc = "cachelog"]

\* where the run stands once processSummonerMatches has returned: the next
\* queue of the summoner, or the cache-log append
AfterQueue(run, clock, tz) ==
    IF run.qi < Len(run.queueIds)
    THEN StartCheck([run EXCEPT !.qi = run.qi + 1], clock, tz)
    ELSE [run EXCEPT !.pc = "cachelog"]

\* the window fields of a run at the top of a batch iteration
EnterBatch(run, clock, tz) ==
    LET w == batchWindow(clock, run.daysFetched,
                         batchDaysOf(run.daysFetched, run.daysToFetch), tz)
    IN [run EXCEPT !.nBatches = run.nBatches + 1,
                   !.firstEnd = IF run.nBatches = 0 THEN w.endTimestamp
                                ELSE run.firstEnd,
                   !.prevStart = run.curStart,
                   !.curStart = w.startTimestamp,
                   !.curEnd = w.endTimestamp]

\* the top of a batch iteration: the clock is read, the window of the batch
\* is fixed and the ids request is sent with it; all of it runs before the
\* await of fetchMatchIds
StartBatch(run, clock, tz) ==
    [EnterBatch(run, clock, tz) EXCEPT !.pc = "ids"]

\* the end of one iteration of the batch loop: daysFetched += batchDays,
\* then the next iteration starts at once, at the clock of this moment, or
\* the loop is over
AfterBatch(run, clock, tz) ==
    LET fetched == run.daysFetched
                     + batchDaysOf(run.daysFetched, run.daysToFetch)
        next == [run EXCEPT !.daysFetched = fetched, !.newIds = <<>>,
                            !.mi = 0, !.ids = <<>>, !.pending = "none",
                            !.rankedMatches = {}, !.arenaMatchIds = {}]
    IN IF fetched < run.daysToFetch
       THEN StartBatch(next, clock, tz)
       ELSE AfterQueue(next, clock, tz)

\* the end of one iteration of the match loop
AfterMatch(run, clock, tz) ==
    IF run.mi < Len(run.newIds)
    THEN [run EXCEPT !.mi = run.mi + 1]
    ELSE AfterBatch(run, clock, tz)

Summoner(run) == run.roster[run.si]
QueueId(run) == run.queueIds[run.qi]

Tick(maxTicks) ==
    /\ now < Epoch0 + maxTicks * TickSec
    /\ now' = now + TickSec
    /\ lastOp' = [op |-> "tick"]
    /\ UNCHANGED <<svcVars, guilds, summoners, guildSummoners,
                   rankedSoloMatches, arenaMatches, cacheLogs, runs,
                   runsStarted, purge>>

(***************************************************************************)
(* cacheMatchData: one pipeline run r.  Every await of the code is a       *)
(* suspension point, so every action below is the code between two store   *)
(* or upstream calls; an upstream call that reads no state is taken        *)
(* together with the store call that follows it.                           *)
(***************************************************************************)
\* getUniqueSummoners answers (any row order), then the first summoner's
\* first queue is entered; a run over an empty roster completes at once.
\* The model holds at most maxRuns runs
StartRunOf(r, maxRuns) ==
    /\ runs[r].pc = "idle"
    /\ runsStarted < maxRuns
    /\ runsStarted' = runsStarted + 1
    /\ \E roster \in Orderings(getUniqueSummoners(summoners)) :
          IF roster = <<>>
          THEN /\ runs' = runs
               /\ lastOp' = [op |-> "runDone", run |-> r, roster |-> roster,
                             logged |-> <<>>]
          ELSE /\ runs' = [runs EXCEPT ![r] =
                             StartCheck([IdleRun EXCEPT
                                            !.roster = roster,
                                            !.queueIds = QUEUE_IDS_TO_CACHE,
                                            !.si = 1, !.qi = 1],
                                        now, process.tz)]
               /\ lastOp' = [op |-> "start", run |-> r]
    /\ UNCHANGED <<svcVars, now, guilds, summoners, guildSummoners,
                   rankedSoloMatches, arenaMatches, cacheLogs, purge>>

StartRun(r) == StartRunOf(r, MaxRuns)

\* processSummonerMatches, the freshness check that fixes daysToFetch: the
\* findFirst is answered from the cache log as it is now, with the cutoff
\* that was fixed when the check was called
CheckCached(r) ==
    LET run == runs[r]
        cachedRecently == checkIfCachedWithinRange(
                              Summoner(run).puuid, run.cutoffDate, cacheLogs)
    IN /\ run.pc = "check"
       /\ runs' = [runs EXCEPT ![r] =
                     [run EXCEPT !.pc = "count",
                                 !.daysToFetch = daysToFetchFor(cachedRecently),
                                 !.daysFetched = 0, !.nBatches = 0,
                                 !.firstEnd = 0, !.prevStart = 0,
                                 !.curStart = 0, !.curEnd = 0]]
       /\ lastOp' = [op |-> "check", run |-> r]
       /\ UNCHANGED <<svcVars, now, guilds, summoners, guildSummoners,
                      rankedSoloMatches, arenaMatches, cacheLogs,
                      runsStarted, purge>>

\* processSummonerMatches, the count of the rows already stored (logged
\* only); when it is answered the batch loop starts and sends its first ids
\* request
CountExisting(r) ==
    /\ runs[r].pc = "count"
    /\ runs' = [runs EXCEPT ![r] = StartBatch(runs[r], now, process.tz)]
    /\ lastOp' = [op |-> "count", run |-> r]
    /\ UNCHANGED <<svcVars, now, guilds, summoners, guildSummoners,
                   rankedSoloMatches, arenaMatches, cacheLogs, runsStarted,
                   purge>>

\* a pipeline that isolates a store failure like a batch failure: the
\* summoner is skipped and the run goes on with the next one
OnStoreErrorSkip(run, clock, tz) == AfterSummoner(run, clock, tz)

\* the catch block of cacheMatchData logs and rethrows: the run is over
OnStoreError(run, clock, tz) == IdleRun

\* a store failure in the freshness check, the count or the cache-log append
\* is not caught by the pipeline: the run ends with the error, which the
\* cron callback catches
StoreFailure(r) ==
    /\ runs[r].pc \in {"check", "count", "cachelog"}
    /\ runs' = [runs EXCEPT ![r] = OnStoreError(runs[r], now, process.tz)]
    /\ process' = cronCatch(process, "cacheMatchData")
    /\ lastOp' = [op |-> "runFailed", run |-> r, at |-> runs[r].pc,
                  si |-> runs[r].si]
    /\ UNCHANGED <<now, guilds, summoners, guildSummoners,
                   rankedSoloMatches, arenaMatches, cacheLogs, runsStarted,
                   purge, calls, report, commandInvocations, riot>>

\* a row of the summoner with this match id is in the table
HasMatch(table, matchId, puuid) ==
    \E row \in BagToSet(table) :
        row.match_id = matchId /\ row.summoner_puuid = puuid

\* one iteration of the batch loop from the answer of the upstream to the
\* first answer of the store: fetchMatchIds answers matchIds for the window
\* of the request, getNewMatchIds sends its two reads and the read of the
\* table `first` is made
FetchIds(r, matchIds, first) ==
    LET run == runs[r]
        puuid == Summoner(run).puuid
    IN /\ runs[r].pc = "ids"
       /\ first \in MatchTables
       /\ runs' = [runs EXCEPT ![r] =
                     [run EXCEPT
                         !.pc = "dedupe", !.ids = matchIds,
                         !.pending = IF first = "arena" THEN "ranked_solo"
                                     ELSE "arena",
                         !.rankedMatches =
                            IF first = "arena" THEN {}
                            ELSE findStoredIds(rankedSoloMatches, matchIds,
                                               puuid),
                         !.arenaMatchIds =
                            IF first = "arena"
                            THEN findStoredIds(arenaMatches, matchIds, puuid)
                            ELSE {}]]
       /\ lastOp' = [op |-> "fetchIds", run |-> r, matchIds |-> matchIds,
                     puuid |-> puuid, first |-> first]
       /\ UNCHANGED <<svcVars, now, guilds, summoners, guildSummoners,
                      rankedSoloMatches, arenaMatches, cacheLogs,
                      runsStarted, purge>>

\* the other read of getNewMatchIds is made and the stored ids are dropped
\* from the answer: the match loop starts, or the batch is over
FilterNewIds(r) ==
    LET run == runs[r]
        puuid == Summoner(run).puuid
        rankedMatches ==
           IF run.pending = "ranked_solo"
           THEN findStoredIds(rankedSoloMatches, run.ids, puuid)
           ELSE run.rankedMatches
        arenaMatchIds ==
           IF run.pending = "arena"
           THEN findStoredIds(arenaMatches, run.ids, puuid)
           ELSE run.arenaMatchIds
        newMatchIds == getNewMatchIds(run.ids, rankedMatches, arenaMatchIds)
        withIds == [run EXCEPT !.newIds = newMatchIds, !.mi = 1,
                               !.pending = "none",
                               !.rankedMatches = rankedMatches,
                               !.arenaMatchIds = arenaMatchIds]
    IN /\ run.pc = "dedupe"
       /\ runs' = [runs EXCEPT ![r] =
                     IF newMatchIds = <<>>
                     THEN AfterBatch(withIds, now, process.tz)
                     ELSE [withIds EXCEPT !.pc = "match"]]
       /\ lastOp' = [op |-> "ids", run |-> r, matchIds |-> run.ids,
                     puuid |-> puuid,
                     requestedQueueId |-> QueueId(run),
                     newMatchIds |-> newMatchIds, before |-> run]
       /\ UNCHANGED <<svcVars, now, guilds, summoners, guildSummoners,
                      rankedSoloMatches, arenaMatches, cacheLogs,
                      runsStarted, purge>>

\* the catch around one batch: the batch is skipped, the loop goes on
OnBatchError(run, clock, tz) == AfterBatch(run, clock, tz)

\* fetchMatchIds throws, or one of the two reads of getNewMatchIds is
\* rejected by the store
FetchIdsFail(r) ==
    /\ runs[r].pc \in {"ids", "dedupe"}
    /\ runs' = [runs EXCEPT ![r] = OnBatchError(runs[r], now, process.tz)]
    /\ lastOp' = [op |-> "idsFail", run |-> r, before |-> runs[r]]
    /\ UNCHANGED <<svcVars, now, guilds, summoners, guildSummoners,
                   rankedSoloMatches, arenaMatches, cacheLogs, runsStarted,
                   purge>>

\* no catch around one match: the error ends the batch
OnMatchErrorNoCatch(run, clock, tz) == AfterBatch(run, clock, tz)

\* the catch around one match: the match is skipped, the loop goes on
OnMatchError(run, clock, tz) == AfterMatch(run, clock, tz)

\* one iteration of the match loop in which fetchMatchDetails throws
FetchDetailFail(r) ==
    LET run == runs[r]
    IN /\ run.pc = "match"
       /\ runs' = [runs EXCEPT ![r] = OnMatchError(run, now, process.tz)]
       /\ lastOp' = [op |-> "detailFail", run |-> r,
                     matchId |-> run.newIds[run.mi],
                     puuid |-> Summoner(run).puuid, before |-> run]
       /\ UNCHANGED <<svcVars, now, guilds, summoners, guildSummoners,
                      rankedSoloMatches, arenaMatches, cacheLogs,
                      runsStarted, purge>>

\* one iteration of the match loop: fetchMatchDetails answers the detail of
\* the requested match, which is saved to the table of its actual queue id
ProcessMatch(r, info, dbOk) ==
    LET run == runs[r]
        matchId == run.newIds[run.mi]
        puuid == Summoner(run).puuid
        matchData == [matchId |-> matchId, queueId |-> info.queueId,
                      gameStartTimestamp |-> info.gameStartTimestamp,
                      participants |-> info.participants]
        toArena == actualIsArena(matchData, QueueId(run))
        res == saveMatchData(matchData, puuid,
                             IF toArena THEN arenaMatches
                             ELSE rankedSoloMatches, dbOk)
    IN /\ run.pc = "match"
       /\ rankedSoloMatches' = IF toArena THEN rankedSoloMatches ELSE res.table
       /\ arenaMatches' = IF toArena THEN res.table ELSE arenaMatches
       /\ runs' = [runs EXCEPT ![r] =
                     IF res.ok THEN AfterMatch(run, now, process.tz)
                     ELSE OnMatchError(run, now, process.tz)]
       /\ lastOp' = [op |-> IF res.ok THEN "save" ELSE "saveFail",
                     run |-> r, matchId |-> matchId, puuid |-> puuid,
                     requestedQueueId |-> QueueId(run),
                     matchData |-> matchData,
                     table |-> IF toArena THEN "arena" ELSE "ranked_solo",
                     before |-> run]
       /\ UNCHANGED <<svcVars, now, guilds, summoners, guildSummoners,
                      cacheLogs, runsStarted, purge>>

\* updateCachedTimestamp once the queue loop of the summoner is over
AppendCacheLog(r) ==
    LET run == runs[r]
        logged == Append(run.logged, Summoner(run).puuid)
        next == AfterSummoner([run EXCEPT !.logged = logged], now,
                              process.tz)
    IN /\ run.pc = "cachelog"
       /\ cacheLogs' = updateCachedTimestamp(Summoner(run).puuid, cacheLogs,
                                             now)
       /\ runs' = [runs EXCEPT ![r] = next]
       /\ lastOp' = [op |-> IF next.pc = "idle" THEN "runDone" ELSE "cachelog",
                     run |-> r, puuid |-> Summoner(run).puuid,
                     roster |-> run.roster, logged |-> logged]
       /\ UNCHANGED <<svcVars, now, guilds, summoners, guildSummoners,
                      rankedSoloMatches, arenaMatches, runsStarted, purge>>

(***************************************************************************)
(* Guild and summoner registration.                                        *)
(***************************************************************************)
\* a guild row with this external id is in the table
HasGuild(guildTable, guildId) ==
    \E row \in BagToSet(guildTable) : row.guild_id = guildId

\* the guilds table without its unique index
GuildKeyFreeNoIndex(guildTable, guildId) == TRUE

\* UNIQUE(guild_id) of the guilds table
GuildKeyFree(guildTable, guildId) == ~HasGuild(guildTable, guildId)

\* addGuild, the findUnique: a guild whose external id is found is not
\* created again and the call returns false; a store failure is caught and
\* returns false as well
AddGuildFind(c, guildName, guildId, dbOk) ==
    /\ calls[c].op = "none"
    /\ IF dbOk /\ ~HasGuild(guilds, guildId)
       THEN /\ calls' = [calls EXCEPT ![c] =
                           [op |-> "addGuild", guildName |-> guildName,
                            guildId |-> guildId]]
            /\ lastOp' = [op |-> "addGuildFind", caller |-> c,
                          guildId |-> guildId]
       ELSE /\ calls' = calls
            /\ lastOp' = [op |-> "addGuild", caller |-> c,
                          guildId |-> guildId, at |-> "findUnique",
                          existed |-> HasGuild(guilds, guildId),
                          returned |-> FALSE, threw |-> FALSE]
    /\ UNCHANGED <<now, guilds, summoners, guildSummoners, rankedSoloMatches,
                   arenaMatches, cacheLogs, runs, runsStarted, purge,
                   process, report, commandInvocations, riot>>

\* addGuild, the create: the unique index rejects an external id that was
\* registered in the meantime; the throw is caught and returns false
AddGuildCreate(c, dbOk) ==
    LET call == calls[c]
        created == dbOk /\ GuildKeyFree(guilds, call.guildId)
    IN /\ call.op = "addGuild"
       /\ guilds' = IF created
                    THEN BagAdd(guilds, [guild_id |-> call.guildId,
                                         name |-> call.guildName])
                    ELSE guilds
       /\ calls' = [calls EXCEPT ![c] = IdleCall]
       /\ lastOp' = [op |-> "addGuild", caller |-> c,
                     guildId |-> call.guildId, at |-> "create",
                     existed |-> HasGuild(guilds, call.guildId),
                     returned |-> created, threw |-> FALSE]
       /\ UNCHANGED <<now, summoners, guildSummoners, rankedSoloMatches,
                      arenaMatches, cacheLogs, runs, runsStarted, purge,
                      process, report, commandInvocations, riot>>

\* tx.summoner.upsert: the row of the puuid is created or its name and
\* region are overwritten
upsertSummoner(summonerTable, puuid, riotId, region) ==
    [p \in DOMAIN summonerTable \cup {puuid} |->
        IF p = puuid THEN [name |-> riotId, region |-> region]
        ELSE summonerTable[p]]

\* the guild_summoners table without its primary key
MembershipKeyFreeNoKey(memberTable, row) == TRUE

\* PRIMARY KEY (guild_id, summoner_puuid) of guild_summoners
MembershipKeyFree(memberTable, row) ==
    \A m \in BagToSet(memberTable) :
        ~(m.guild_id = row.guild_id /\ m.summoner_puuid = row.summoner_puuid)

\* tx.guildSummoner.createMany with skipDuplicates: a row whose key is
\* stored is skipped without an error
createManySkipDuplicates(memberTable, row) ==
    IF MembershipKeyFree(memberTable, row)
    THEN BagAdd(memberTable, row)
    ELSE memberTable

\* a transaction that keeps the writes made before the statement that failed
transactionNoRollback(before, afterUpsert, afterBoth, failedAt) ==
    CASE failedAt = "none" -> afterBoth
      [] failedAt = "upsert" -> before
      [] OTHER -> afterUpsert

\* prisma.$transaction: both writes are committed together, a throw of
\* either statement rolls back to the state before
transaction(before, afterUpsert, afterBoth, failedAt) ==
    IF failedAt = "none" THEN afterBoth ELSE before

\* addSummoner: resolve puuid and region (either may come back absent), then
\* in one transaction upsert the summoner and insert the membership,
\* skipping a duplicate; the membership's foreign key needs the guild, and
\* either statement can fail in the store (dbFail).  The tables after the
\* call and the error it throws.
addSummoner(riotId, guildId, puuid, region, dbFail, summonerTable, memberTable, guildTable) ==
    LET member == [guild_id |-> guildId, summoner_puuid |-> puuid]
        before == [summoners |-> summonerTable, guildSummoners |-> memberTable]
        afterUpsert ==
            [summoners |-> upsertSummoner(summonerTable, puuid, riotId, region),
             guildSummoners |-> memberTable]
        afterBoth ==
            [summoners |-> afterUpsert.summoners,
             guildSummoners |-> createManySkipDuplicates(memberTable, member)]
        failedAt ==
            CASE dbFail = "upsert" -> "upsert"
              [] dbFail = "insert" \/ ~HasGuild(guildTable, guildId) -> "insert"
              [] OTHER -> "none"
        error ==
            CASE puuid = NoPuuid -> "InvalidRiotAccount"
              [] region = NoRegion -> "RegionUndetermined"
              [] failedAt # "none" -> "StoreFailure"
              [] OTHER -> "none"
        after == IF error \in {"InvalidRiotAccount", "RegionUndetermined"}
                 THEN before
                 ELSE transaction(before, afterUpsert, afterBoth, failedAt)
    IN [summoners |-> after.summoners,
        guildSummoners |-> after.guildSummoners,
        wasMember |-> member \in BagToSet(memberTable),
        ok |-> error = "none", error |-> error,
        failedAt |-> IF error = "StoreFailure" THEN failedAt ELSE "none"]

\* what the upstream can answer for a Riot id: its puuid or nothing, and for
\* a puuid its region or nothing
Resolvable(riotId, puuid, region) ==
    /\ puuid \in {RiotIdPuuid[riotId], NoPuuid}
    /\ region \in (IF puuid = NoPuuid THEN {NoRegion}
                   ELSE {PuuidRegion[puuid], NoRegion})

\* a call of addSummoner
AddSummoner(riotId, guildId, puuid, region, dbFail) ==
    LET res == addSummoner(riotId, guildId, puuid, region, dbFail,
                           summoners, guildSummoners, guilds)
    IN /\ Resolvable(riotId, puuid, region)
       /\ dbFail \in {"none", "upsert", "insert"}
       /\ summoners' = res.summoners
       /\ guildSummoners' = res.guildSummoners
       /\ lastOp' = [op |-> "addSummoner", riotId |-> riotId,
                     guildId |-> guildId, puuid |-> puuid, region |-> region,
                     wasMember |-> res.wasMember,
                     ok |-> res.ok, error |-> res.error,
                     failedAt |-> res.failedAt]
       /\ UNCHANGED <<svcVars, now, guilds, rankedSoloMatches, arenaMatches,
                      cacheLogs, runs, runsStarted, purge>>

\* deleteMany where guild_id is any guild's
membershipWhereAnyGuild(row, guildId, puuid) == row.summoner_puuid = puuid

\* where: { guild_id: BigInt(guildId), summoner_puuid: summoner.puuid }
membershipWhere(row, guildId, puuid) ==
    row.guild_id = guildId /\ row.summoner_puuid = puuid

\* the rows findFirst({ where: { name } }) may return: any row with the
\* name, NoPuuid standing for no row
findFirstByName(summonerTable, riotId) ==
    LET named == {p \in DOMAIN summonerTable :
                     summonerTable[p].name = riotId}
    IN IF named = {} THEN {NoPuuid} ELSE named

\* removeSummoner up to the answer of summoner.findFirst({ where: { name } }):
\* a read the store rejects and an unknown name end the call with an error
removeSummonerFind(found, dbOk) ==
    CASE ~dbOk -> [found |-> FALSE, error |-> "StoreFailure"]
      [] found = NoPuuid -> [found |-> FALSE, error |-> "NotFoundInDatabase"]
      [] OTHER -> [found |-> TRUE, error |-> "none"]

\* removeSummoner from the answer of findFirst on: delete the membership of
\* the summoner found in the guild; a delete the store rejects and a missing
\* membership are errors.  The membership table after the call and the
\* error it throws.
removeSummoner(riotId, guildId, found, memberTable, dbOk) ==
    LET res == DeleteMany(memberTable,
                   {row \in BagToSet(memberTable) :
                       membershipWhere(row, guildId, found)})
    IN IF ~dbOk
       THEN [guildSummoners |-> memberTable, ok |-> FALSE,
             error |-> "StoreFailure"]
       ELSE [guildSummoners |-> res.table, ok |-> res.count # 0,
             error |-> IF res.count = 0 THEN "NotAssociatedWithGuild"
                       ELSE "none"]

\* a call of removeSummoner up to the answer of findFirst
RemoveSummonerFind(c, riotId, guildId, dbOk) ==
    /\ calls[c].op = "none"
    /\ \E found \in findFirstByName(summoners, riotId) :
          LET res == removeSummonerFind(found, dbOk)
          IN IF res.found
             THEN /\ calls' = [calls EXCEPT ![c] =
                                 [op |-> "removeSummoner", riotId |-> riotId,
                                  guildId |-> guildId, puuid |-> found]]
                  /\ lastOp' = [op |-> "removeSummonerFind", caller |-> c,
                                riotId |-> riotId, guildId |-> guildId,
                                puuid |-> found]
             ELSE /\ calls' = calls
                  /\ lastOp' = [op |-> "removeSummoner", riotId |-> riotId,
                                guildId |-> guildId, puuid |-> NoPuuid,
                                at |-> "findFirst", ok |-> FALSE,
                                error |-> res.error]
    /\ UNCHANGED <<now, guilds, summoners, guildSummoners, rankedSoloMatches,
                   arenaMatches, cacheLogs, runs, runsStarted, purge,
                   process, report, commandInvocations, riot>>

\* the rest of the call: guildSummoner.deleteMany and its answer
RemoveSummonerDelete(c, dbOk) ==
    LET call == calls[c]
        res == removeSummoner(call.riotId, call.guildId, call.puuid,
                              guildSummoners, dbOk)
    IN /\ call.op = "removeSummoner"
       /\ guildSummoners' = res.guildSummoners
       /\ calls' = [calls EXCEPT ![c] = IdleCall]
       /\ lastOp' = [op |-> "removeSummoner", riotId |-> call.riotId,
                     guildId |-> call.guildId, puuid |-> call.puuid,
                     at |-> "deleteMany", ok |-> res.ok, error |-> res.error]
       /\ UNCHANGED <<now, guilds, summoners, rankedSoloMatches,
                      arenaMatches, cacheLogs, runs, runsStarted, purge,
                      process, report, commandInvocations, riot>>

(***************************************************************************)
(* The HTTP layer: the API-key middleware in front of every route, and the *)
(* summoner routes.  A request is answered in one step; its answer is kept *)
(* in lastOp: the status, and whether a route handler was invoked.         *)
(***************************************************************************)
\* a middleware that lets every request with a non-empty key through
verifyApiKeyPresentOnly(receivedApiKey) ==
    IF receivedApiKey \in {NoHeader, ""}
    THEN [next |-> FALSE, status |-> 401]
    ELSE [next |-> TRUE, status |-> 0]

\* verifyApiKey: a header that is absent or empty is answered 401, a value
\* other than the configured key 403, the configured key calls next()
verifyApiKey(receivedApiKey) ==
    CASE receivedApiKey \in {NoHeader, ""} -> [next |-> FALSE, status |-> 401]
      [] receivedApiKey # API_KEY -> [next |-> FALSE, status |-> 403]
      [] OTHER -> [next |-> TRUE, status |-> 0]

\* the catch block of a route handler: every failure of the model is
\* answered 500
catchStatus(error) == 500

\* the answer of the middleware to a request it does not pass on
Rejected(route, apiKey, summonerRiotId, guildId, status) ==
    /\ lastOp' = [op |-> "http", route |-> route, apiKey |-> apiKey,
                  riotId |-> summonerRiotId, guildId |-> guildId,
                  handled |-> FALSE, status |-> status, error |-> "none"]
    /\ UNCHANGED <<summoners, guildSummoners, commandInvocations, riot>>

\* a request with a body or query field missing is answered 400 by the
\* route handler
MissingFields(route, apiKey, summonerRiotId, guildId) ==
    /\ lastOp' = [op |-> "http", route |-> route, apiKey |-> apiKey,
                  riotId |-> summonerRiotId, guildId |-> guildId,
                  handled |-> TRUE, status |-> 400, error |-> "MissingFields"]
    /\ UNCHANGED <<summoners, guildSummoners, commandInvocations, riot>>

\* POST /summoners { summonerRiotId, guildId }
PostSummoners(apiKey, summonerRiotId, guildId, puuid, region, dbFail) ==
    LET auth == verifyApiKey(apiKey)
        res == addSummoner(summonerRiotId, guildId, puuid, region, dbFail,
                           summoners, guildSummoners, guilds)
    IN /\ IF ~auth.next
          THEN Rejected("POST /summoners", apiKey, summonerRiotId, guildId,
                        auth.status)
          ELSE IF summonerRiotId = NoRiotId \/ guildId = NoGuildId
          THEN MissingFields("POST /summoners", apiKey, summonerRiotId, guildId)
          ELSE /\ Resolvable(summonerRiotId, puuid, region)
               /\ summoners' = res.summoners
               /\ guildSummoners' = res.guildSummoners
               /\ lastOp' = [op |-> "http", route |-> "POST /summoners",
                             apiKey |-> apiKey, riotId |-> summonerRiotId,
                             guildId |-> guildId, handled |-> TRUE,
                             status |-> IF res.ok THEN 200
                                        ELSE catchStatus(res.error),
                             error |-> res.error]
       /\ UNCHANGED <<svcVars, now, guilds, rankedSoloMatches, arenaMatches,
                      cacheLogs, runs, runsStarted, purge>>

\* DELETE /summoners?summonerRiotId=..&guildId=.., up to the answer of
\* findFirst: the middleware, the check of the query fields, and the first
\* store call of removeSummoner
DeleteSummoners(c, apiKey, summonerRiotId, guildId, dbOk) ==
    LET auth == verifyApiKey(apiKey)
    IN /\ calls[c].op = "none"
       /\ IF ~auth.next
          THEN /\ Rejected("DELETE /summoners", apiKey, summonerRiotId,
                           guildId, auth.status)
               /\ calls' = calls
          ELSE IF summonerRiotId = NoRiotId \/ guildId = NoGuildId
          THEN /\ MissingFields("DELETE /summoners", apiKey, summonerRiotId,
                                guildId)
               /\ calls' = calls
          ELSE \E found \in findFirstByName(summoners, summonerRiotId) :
                 LET res == removeSummonerFind(found, dbOk)
                 IN IF res.found
                    THEN /\ calls' = [calls EXCEPT ![c] =
                                        [op |-> "DELETE /summoners",
                                         riotId |-> summonerRiotId,
                                         guildId |-> guildId,
                                         puuid |-> found]]
                         /\ lastOp' = [op |-> "removeSummonerFind",
                                       caller |-> c,
                                       riotId |-> summonerRiotId,
                                       guildId |-> guildId, puuid |-> found]
                    ELSE /\ calls' = calls
                         /\ lastOp' = [op |-> "http",
                                       route |-> "DELETE /summoners",
                                       apiKey |-> apiKey,
                                       riotId |-> summonerRiotId,
                                       guildId |-> guildId, handled |-> TRUE,
                                       status |-> catchStatus(res.error),
                                       error |-> res.error]
       /\ UNCHANGED <<now, guilds, summoners, guildSummoners,
                      rankedSoloMatches, arenaMatches, cacheLogs, runs,
                      runsStarted, purge, process, report,
                      commandInvocations, riot>>

\* the rest of the request: guildSummoner.deleteMany and the answer of the
\* route
DeleteSummonersAnswer(c, dbOk) ==
    LET call == calls[c]
        res == removeSummoner(call.riotId, call.guildId, call.puuid,
                              guildSummoners, dbOk)
    IN /\ call.op = "DELETE /summoners"
       /\ guildSummoners' = res.guildSummoners
       /\ calls' = [calls EXCEPT ![c] = IdleCall]
       /\ lastOp' = [op |-> "http", route |-> "DELETE /summoners",
                     apiKey |-> API_KEY, riotId |-> call.riotId,
                     guildId |-> call.guildId, handled |-> TRUE,
                     status |-> IF res.ok THEN 200
                                ELSE catchStatus(res.error),
                     error |-> res.error]
       /\ UNCHANGED <<now, guilds, summoners, rankedSoloMatches,
                      arenaMatches, cacheLogs, runs, runsStarted, purge,
                      process, report, commandInvocations, riot>>

\* POST /summoners/cache/timestamp { puuid, name }: updateCachedTimestamp
\* for the summoner of the body, whoever it is; requests are made while the
\* table holds fewer than MaxCacheLogs rows
PostCacheTimestamp(apiKey, puuid, name, dbOk) ==
    LET auth == verifyApiKey(apiKey)
        res == updateCachedTimestamp(puuid, cacheLogs, now)
        missing == puuid = NoPuuid \/ name = NoRiotId
        written == auth.next /\ ~missing /\ dbOk
    IN /\ BagCardinality(cacheLogs) < MaxCacheLogs
       /\ cacheLogs' = IF written THEN res ELSE cacheLogs
       /\ lastOp' = [op |-> "http",
                     route |-> "POST /summoners/cache/timestamp",
                     apiKey |-> apiKey, riotId |-> name,
                     guildId |-> NoGuildId, handled |-> auth.next,
                     status |-> CASE ~auth.next -> auth.status
                                  [] missing -> 400
                                  [] ~dbOk -> catchStatus("StoreFailure")
                                  [] OTHER -> 200,
                     error |-> CASE ~auth.next -> "none"
                                 [] missing -> "MissingFields"
                                 [] ~dbOk -> "StoreFailure"
                                 [] OTHER -> "none"]
       /\ UNCHANGED <<svcVars, now, guilds, summoners, guildSummoners,
                      rankedSoloMatches, arenaMatches, runs, runsStarted,
                      purge>>

(***************************************************************************)
(* Retention.                                                              *)
(***************************************************************************)
\* cutoffTimestamp of deleteMatchesOlderThan
cutoffTimestamp(clock, days) == clock - days * SecPerDay

\* the where clause with lte in place of lt
olderThanCutoffLte(row, cutoff) == row.game_start_timestamp <= cutoff

\* where: { game_start_timestamp: { lt: cutoffTimestamp } }
olderThanCutoff(row, cutoff) == row.game_start_timestamp < cutoff

\* where: { summoner_puuid: { notIn: activePuuids } }
notInActive(row, activePuuids) == row.summoner_puuid \notin activePuuids

\* deleteMatchesOlderThan(days) is called: the clock is read, the cutoff is
\* fixed and the Ranked-Solo delete is sent; all of it runs before the await
DeleteMatchesOlderThan(days) ==
    /\ purge.pc = "idle"
    /\ purge' = [IdlePurge EXCEPT !.pc = "oldRanked", !.kind = "old",
                                  !.days = days, !.calledAt = now,
                                  !.cutoff = cutoffTimestamp(now, days)]
    /\ lastOp' = [op |-> "purgeOldCall", days |-> days]
    /\ UNCHANGED <<svcVars, now, guilds, summoners, guildSummoners,
                   rankedSoloMatches, arenaMatches, cacheLogs, runs,
                   runsStarted>>

\* a purge that deletes the old rows of both tables in one statement
PurgeOldBothTables ==
    LET res == DeleteMany(rankedSoloMatches,
                          {row \in BagToSet(rankedSoloMatches) :
                              olderThanCutoff(row, purge.cutoff)})
        resArena == DeleteMany(arenaMatches,
                               {row \in BagToSet(arenaMatches) :
                                   olderThanCutoff(row, purge.cutoff)})
    IN /\ purge.pc = "oldRanked"
       /\ rankedSoloMatches' = res.table
       /\ arenaMatches' = resArena.table
       /\ purge' = [purge EXCEPT !.pc = "oldArena",
                                 !.rankedCount = res.count]
       /\ lastOp' = [op |-> "purgeOldRanked", days |-> purge.days,
                     count |-> res.count]
       /\ UNCHANGED <<svcVars, now, guilds, summoners, guildSummoners,
                      cacheLogs, runs, runsStarted>>

\* deleteMatchesOlderThan, first statement: the Ranked-Solo delete is made
\* on the table as it is now, with the cutoff fixed at the call
PurgeOldRanked ==
    LET res == DeleteMany(rankedSoloMatches,
                          {row \in BagToSet(rankedSoloMatches) :
                              olderThanCutoff(row, purge.cutoff)})
    IN /\ purge.pc = "oldRanked"
       /\ rankedSoloMatches' = res.table
       /\ purge' = [purge EXCEPT !.pc = "oldArena",
                                 !.rankedCount = res.count]
       /\ lastOp' = [op |-> "purgeOldRanked", days |-> purge.days,
                     count |-> res.count]
       /\ UNCHANGED <<svcVars, now, guilds, summoners, guildSummoners,
                      arenaMatches, cacheLogs, runs, runsStarted>>

\* deleteMatchesOlderThan, second statement: the Arena delete and the total
PurgeOldArena ==
    LET res == DeleteMany(arenaMatches,
                          {row \in BagToSet(arenaMatches) :
                              olderThanCutoff(row, purge.cutoff)})
    IN /\ purge.pc = "oldArena"
       /\ arenaMatches' = res.table
       /\ purge' = IdlePurge
       /\ lastOp' = [op |-> "purgeOldArena", days |-> purge.days,
                     calledAt |-> purge.calledAt, count |-> res.count,
                     totalDeleted |-> purge.rankedCount + res.count]
       /\ UNCHANGED <<svcVars, now, guilds, summoners, guildSummoners,
                      rankedSoloMatches, cacheLogs, runs, runsStarted>>

\* the summoners that are a member of at least one guild (kept with the
\* purge for the record)
TrackedPuuids == {m.summoner_puuid : m \in BagToSet(guildSummoners)}

\* deleteMatchesForRemovedSummoners, the roster read
PurgeOrphanRoster ==
    /\ purge.pc = "idle"
    /\ purge' = [IdlePurge EXCEPT
                    !.pc = "orphanRanked", !.kind = "orphan",
                    !.calledAt = now,
                    !.tracked = TrackedPuuids,
                    !.active = {s.puuid : s \in getUniqueSummoners(summoners)}]
    /\ lastOp' = [op |-> "purgeOrphanRoster"]
    /\ UNCHANGED <<svcVars, now, guilds, summoners, guildSummoners,
                   rankedSoloMatches, arenaMatches, cacheLogs, runs,
                   runsStarted>>

\* deleteMatchesForRemovedSummoners, the Ranked-Solo delete
PurgeOrphanRanked ==
    LET res == DeleteMany(rankedSoloMatches,
                          {row \in BagToSet(rankedSoloMatches) :
                              notInActive(row, purge.active)})
    IN /\ purge.pc = "orphanRanked"
       /\ rankedSoloMatches' = res.table
       /\ purge' = [purge EXCEPT !.pc = "orphanArena",
                                 !.rankedCount = res.count]
       /\ lastOp' = [op |-> "purgeOrphanRanked", count |-> res.count]
       /\ UNCHANGED <<svcVars, now, guilds, summoners, guildSummoners,
                      arenaMatches, cacheLogs, runs, runsStarted>>

\* deleteMatchesForRemovedSummoners, the Arena delete and the total
PurgeOrphanArena ==
    LET res == DeleteMany(arenaMatches,
                          {row \in BagToSet(arenaMatches) :
                              notInActive(row, purge.active)})
    IN /\ purge.pc = "orphanArena"
       /\ arenaMatches' = res.table
       /\ purge' = IdlePurge
       /\ lastOp' = [op |-> "purgeOrphanArena", count |-> res.count,
                     totalDeleted |-> purge.rankedCount + res.count]
       /\ UNCHANGED <<svcVars, now, guilds, summoners, guildSummoners,
                      rankedSoloMatches, cacheLogs, runs, runsStarted>>

(***************************************************************************)
(* The scheduler: initCronJobs registers three callbacks; each calls its   *)
(* task inside try/catch.                                                  *)
(***************************************************************************)
\* the retention period of the daily job
daysToKeep == 31

\* the scheduler fires the callback of a task while the process lives and
\* the task is scheduled
Fires(task) == process.alive /\ task \in process.scheduled

\* an hourly callback that skips its run while an earlier run is executing
hourlyStartsIfIdle(runTable) ==
    \A r \in DOMAIN runTable : runTable[r].pc = "idle"

\* the hourly callback calls cacheMatchData whatever earlier runs are doing
hourlyStarts(runTable) == TRUE

\* scripts/clearMatches.ts, the first statement: every Ranked-Solo row is
\* deleted; a delete the store rejects ends the script with exit code 1
ClearMatchesRanked(c, dbOk) ==
    LET res == DeleteMany(rankedSoloMatches, BagToSet(rankedSoloMatches))
    IN /\ calls[c].op = "none"
       /\ rankedSoloMatches' = IF dbOk THEN res.table ELSE rankedSoloMatches
       /\ calls' = IF dbOk
                   THEN [calls EXCEPT ![c] = [op |-> "clearMatches",
                                              rankedCount |-> res.count]]
                   ELSE calls
       /\ lastOp' = IF dbOk
                    THEN [op |-> "clearMatchesRanked", count |-> res.count]
                    ELSE [op |-> "clearMatches", exit |-> 1,
                          totalDeleted |-> 0]
       /\ UNCHANGED <<now, guilds, summoners, guildSummoners, arenaMatches,
                      cacheLogs, runs, runsStarted, purge, process, report,
                      commandInvocations, riot>>

\* scripts/clearMatches.ts, the second statement: every Arena row is
\* deleted and the script exits
ClearMatchesArena(c, dbOk) ==
    LET res == DeleteMany(arenaMatches, BagToSet(arenaMatches))
    IN /\ calls[c].op = "clearMatches"
       /\ arenaMatches' = IF dbOk THEN res.table ELSE arenaMatches
       /\ calls' = [calls EXCEPT ![c] = IdleCall]
       /\ lastOp' = [op |-> "clearMatches",
                     exit |-> IF dbOk THEN 0 ELSE 1,
                     totalDeleted |-> IF dbOk
                                      THEN calls[c].rankedCount + res.count
                                      ELSE 0]
       /\ UNCHANGED <<now, guilds, summoners, guildSummoners,
                      rankedSoloMatches, cacheLogs, runs, runsStarted, purge,
                      process, report, commandInvocations, riot>>

\* "0 * * * *": a pipeline run starts
CronHourly(r) ==
    /\ Fires("cacheMatchData")
    /\ hourlyStarts(runs)
    /\ StartRun(r)

\* "0 5 * * *": the callback calls deleteMatchesOlderThan(31)
CronDaily ==
    /\ Fires("deleteMatchesOlderThan")
    /\ DeleteMatchesOlderThan(daysToKeep)

\* "0 3 * * 0": deleteMatchesForRemovedSummoners starts
CronWeekly ==
    /\ Fires("deleteMatchesForRemovedSummoners")
    /\ PurgeOrphanRoster

\* the task a purge in progress belongs to
PurgeTask(kind) ==
    IF kind = "old" THEN "deleteMatchesOlderThan"
    ELSE "deleteMatchesForRemovedSummoners"

\* a deleteMany of a purge in progress fails: the purge logs and rethrows,
\* the cron callback catches
PurgeFailure ==
    /\ purge.pc # "idle"
    /\ purge' = IdlePurge
    /\ process' = cronCatch(process, PurgeTask(purge.kind))
    /\ lastOp' = [op |-> "purgeFailed", task |-> PurgeTask(purge.kind),
                  at |-> purge.pc, cutoff |-> purge.cutoff,
                  rankedCount |-> purge.rankedCount]
    /\ UNCHANGED <<now, guilds, summoners, guildSummoners,
                   rankedSoloMatches, arenaMatches, cacheLogs, runs,
                   runsStarted, calls, report, commandInvocations, riot>>

(***************************************************************************)
(* Reports and rankings: one stat computation per summoner of the guild is *)
(* started, Promise.all collects their results, and the results are        *)
(* aggregated.                                                             *)
(***************************************************************************)
\* the summoners of the reported guild and the stat fields of a queue
ReportNames == {"Ann #NA1", "Bob #KR", "Cid #EUW"}
StatNames == {"avgKills", "avgPlacement"}
Limits == {1, 2}

\* a promise that has not settled, the null of a summoner without matches,
\* and the stats of a summoner
Pending == [is |-> "pending"]
NullStats == [is |-> "null"]
StatsOf(name, stats) == [is |-> "stats", name |-> name, stats |-> stats]

\* what fetchSummonerStatsWithName can resolve to for a summoner, the stat
\* values being at most max
StatsValuesUpTo(name, max) ==
    {NullStats} \cup {StatsOf(name, st) : st \in [StatNames -> 0..max]}

StatsValues(name) == StatsValuesUpTo(name, MaxStat)

\* a collector that appends each result as it arrives
settleInCompletionOrder(settled, i, value, nDone) ==
    [settled EXCEPT ![nDone + 1] = value]

\* Promise.all: the result of the i-th promise is the i-th element
promiseAllSettle(settled, i, value, nDone) == [settled EXCEPT ![i] = value]

\* the comparison of findMaxStats with >= in place of >
isNewMaxGte(value, current) == value >= current

\* value > result[statName]["Max Value"]
isNewMax(value, current) == value > current

\* findMaxStats, one summoner: every stat of the summoner that the result
\* does not hold yet, or that is a new maximum, is recorded under its name
recordMax(result, summoner) ==
    [statName \in DOMAIN result \cup DOMAIN summoner.stats |->
        IF /\ statName \in DOMAIN summoner.stats
           /\ \/ statName \notin DOMAIN result
              \/ isNewMax(summoner.stats[statName], result[statName].MaxValue)
        THEN [MaxValue |-> summoner.stats[statName], Name |-> summoner.name]
        ELSE result[statName]]

\* findMaxStats: the summoners in the order of the array, null ones skipped
RECURSIVE findMaxStatsFrom(_, _, _)
findMaxStatsFrom(summonerStats, i, result) ==
    IF i > Len(summonerStats) THEN result
    ELSE findMaxStatsFrom(summonerStats, i + 1,
            IF summonerStats[i].is = "stats"
            THEN recordMax(result, summonerStats[i])
            ELSE result)

findMaxStats(summonerStats) == findMaxStatsFrom(summonerStats, 1, <<>>)

\* a comparator that sorts every stat descending
sortComparatorDescending(statName, a, b) == b.value - a.value

\* the sort comparator of a stat: ascending for avgPlacement, descending
\* for every other stat
sortComparator(statName, a, b) ==
    IF statName = "avgPlacement" THEN a.value - b.value
    ELSE b.value - a.value

\* Array.prototype.sort is stable: an entry is placed behind the entries
\* that do not compare greater
RECURSIVE sortEntriesFrom(_, _, _, _)
sortEntriesFrom(statName, entries, i, sorted) ==
    IF i > Len(entries) THEN sorted
    ELSE LET x == entries[i]
             k == Cardinality({j \in 1..Len(sorted) :
                      sortComparator(statName, sorted[j], x) <= 0})
         IN sortEntriesFrom(statName, entries, i + 1,
                SubSeq(sorted, 1, k) \o <<x>>
                   \o SubSeq(sorted, k + 1, Len(sorted)))

\* slice(0, limit)
slice(entries, limit) == SubSeq(entries, 1, Min(limit, Len(entries)))

\* the entries pushed for a stat, in the order of the array
RECURSIVE entriesFrom(_, _, _)
entriesFrom(statName, summonerStats, i) ==
    IF i > Len(summonerStats) THEN <<>>
    ELSE (IF summonerStats[i].is = "stats"
          THEN <<[name |-> summonerStats[i].name,
                  value |-> summonerStats[i].stats[statName]]>>
          ELSE <<>>) \o entriesFrom(statName, summonerStats, i + 1)

\* aggregateRankings: per stat, the entries sorted and cut to the limit
aggregateRankings(summonerStats, limit) ==
    LET present == UNION {DOMAIN summonerStats[i].stats :
                       i \in {j \in 1..Len(summonerStats) :
                                 summonerStats[j].is = "stats"}}
    IN [statName \in present |->
           slice(sortEntriesFrom(statName,
                    entriesFrom(statName, summonerStats, 1), 1, <<>>),
                 limit)]

\* what a request has returned (null, or a value), the error a request
\* throws when the store rejects one of its reads, and the TypeError
\* "handler.fetchMatches is not a function"
Returned(null, value) ==
    [null |-> null, threw |-> FALSE, error |-> "none", value |-> value]

DatabaseQueryFailed ==
    [null |-> FALSE, threw |-> TRUE, error |-> "StoreFailure", value |-> <<>>]

FetchMatchesNotAFunction ==
    [null |-> FALSE, threw |-> TRUE, error |-> "TypeError", value |-> <<>>]

\* what fetchReportByDayRange and fetchRankings return for the collected
\* results: the report is null when every summoner's stats are null
aggregate(kind, summonerStats, limit) ==
    IF kind = "report"
    THEN IF \A i \in 1..Len(summonerStats) : summonerStats[i].is = "null"
         THEN Returned(TRUE, <<>>)
         ELSE Returned(FALSE, findMaxStats(summonerStats))
    ELSE Returned(FALSE, aggregateRankings(summonerStats, limit))

\* QUEUE_HANDLERS: the queue keys that have a handler, with their queue id
QUEUE_HANDLERS == [ranked_solo |-> 420, arena |-> 1700]

\* the property names that QUEUE_HANDLERS, a plain object, inherits from
\* Object.prototype: each has a value that is a function or an object
ObjectPrototypeKeys ==
    {"constructor", "hasOwnProperty", "isPrototypeOf", "propertyIsEnumerable",
     "toLocaleString", "toString", "valueOf", "__proto__",
     "__defineGetter__", "__defineSetter__", "__lookupGetter__",
     "__lookupSetter__"}

\* getQueueHandler: QUEUE_HANDLERS[queueType] || null, the value found
\* under the queue key: whether it is null and whether it has a
\* fetchMatches function.  An inherited property is found and has none
getQueueHandler(queueType) ==
    CASE queueType \in DOMAIN QUEUE_HANDLERS ->
            [null |-> FALSE, fetchMatches |-> TRUE]
      [] queueType \in ObjectPrototypeKeys ->
            [null |-> FALSE, fetchMatches |-> FALSE]
      [] OTHER -> [null |-> TRUE, fetchMatches |-> FALSE]

\* a report or rankings request as it arrives: the guild, the queue key,
\* the range in days of a report, the startDate of a rankings request and
\* the limit; startDateEpoch, the lower bound of the matches reads, is not
\* fixed before the summoners are read; stats is what calculateStats yields
\* for the rows of each summoner that has rows in the period
RequestedReport(kind, guildId, queueType, range, startDate, stats, limit) ==
    [pc |-> "requested", kind |-> kind, guildId |-> guildId,
     queueType |-> queueType, range |-> range, startDate |-> startDate,
     startDateEpoch |-> 0,
     stats |-> stats, limit |-> limit, roster |-> <<>>, settled |-> <<>>,
     order |-> <<>>, result |-> Returned(TRUE, <<>>)]

\* getGuildById: whether guild.findUnique finds the guild
getGuildById(guildTable, guildId) == HasGuild(guildTable, guildId)

\* getSummonersByGuildId: the summoner of every membership row of the guild
getSummonersByGuildId(guildId, memberTable, summonerTable) ==
    {[name |-> summonerTable[m.summoner_puuid].name,
      puuid |-> m.summoner_puuid,
      region |-> summonerTable[m.summoner_puuid].region] :
        m \in {x \in BagToSet(memberTable) : x.guild_id = guildId}}

\* fetchRankings and fetchReportByDayRange, the guild read: a read the
\* store rejects throws, a guild that is not stored returns null
ReadGuild(dbOk) ==
    LET found == getGuildById(guilds, report.guildId)
    IN /\ report.pc = "requested"
       /\ report' = CASE ~dbOk -> [report EXCEPT !.pc = "done",
                                      !.result = DatabaseQueryFailed]
                      [] ~found -> [report EXCEPT !.pc = "done"]
                      [] OTHER -> [report EXCEPT !.pc = "guildRead"]
       /\ lastOp' = [op |-> "readGuild", dbOk |-> dbOk, found |-> found]
       /\ UNCHANGED <<now, guilds, summoners, guildSummoners,
                      rankedSoloMatches, arenaMatches, cacheLogs, runs,
                      runsStarted, purge, calls, process, commandInvocations,
                      riot>>

\* the summoner read and the fan-out: the rows come in any order; a read
\* the store rejects throws, an empty list or a queue key without handler
\* returns null, otherwise the start of the period is fixed (a report reads
\* the clock now: Date.now() - range days; rankings take the startDate of
\* the request) and one stat computation per summoner is started with it.
\* Under a queue key whose value has no fetchMatches every computation
\* rejects before it reads the store, and the request throws
ReadSummoners(dbOk) ==
    /\ report.pc = "guildRead"
    /\ \E summonerList \in
             Orderings(getSummonersByGuildId(report.guildId, guildSummoners,
                                             summoners)) :
          LET absent ==
                  CASE ~dbOk -> "threw"
                    [] summonerList = <<>> -> "summoners"
                    [] getQueueHandler(report.queueType).null -> "handler"
                    [] ~getQueueHandler(report.queueType).fetchMatches ->
                          "notAFunction"
                    [] OTHER -> "none"
              startDateEpoch ==
                  IF report.kind = "report"
                  THEN now - report.range * SecPerDay
                  ELSE report.startDate
          IN /\ report' =
                   CASE absent = "threw" ->
                           [report EXCEPT !.pc = "done",
                                          !.result = DatabaseQueryFailed]
                     [] absent = "notAFunction" ->
                           [report EXCEPT !.pc = "done",
                                          !.startDateEpoch = startDateEpoch,
                                          !.result = FetchMatchesNotAFunction]
                     [] absent \in {"summoners", "handler"} ->
                           [report EXCEPT !.pc = "done"]
                     [] OTHER ->
                           [report EXCEPT
                               !.pc = "pending", !.roster = summonerList,
                               !.startDateEpoch = startDateEpoch,
                               !.settled = [i \in 1..Len(summonerList) |->
                                               Pending]]
             /\ lastOp' = [op |-> "readSummoners", dbOk |-> dbOk,
                           absent |-> absent]
    /\ UNCHANGED <<now, guilds, summoners, guildSummoners,
                   rankedSoloMatches, arenaMatches, cacheLogs, runs,
                   runsStarted, purge, calls, process, commandInvocations,
                   riot>>

\* fetchSummonerStatsWithName of the i-th summoner completes: its rows of
\* the period are read, no row gives null; a read the store rejects
\* rejects Promise.all, and the request throws
SettleStat(i, dbOk) ==
    LET summoner == report.roster[i]
        res == readMatches(report.queueType = "arena", summoner.puuid,
                           report.startDateEpoch, rankedSoloMatches,
                           arenaMatches)
        value == IF res.rows = EmptyBag THEN NullStats
                 ELSE report.stats[summoner.name]
    IN /\ report.pc = "pending"
       /\ i \in 1..Len(report.roster)
       /\ i \notin Range(report.order)
       /\ rankedSoloMatches' = IF dbOk THEN res.ranked ELSE rankedSoloMatches
       /\ arenaMatches' = IF dbOk THEN res.arena ELSE arenaMatches
       /\ report' = IF dbOk
                    THEN [report EXCEPT
                             !.settled = promiseAllSettle(report.settled, i,
                                             value, Len(report.order)),
                             !.order = Append(report.order, i)]
                    ELSE [report EXCEPT !.pc = "done",
                                        !.result = DatabaseQueryFailed]
       /\ lastOp' = [op |-> "settle", i |-> i, dbOk |-> dbOk]
       /\ UNCHANGED <<now, guilds, summoners, guildSummoners, cacheLogs,
                      runs, runsStarted, purge, calls, process,
                      commandInvocations, riot>>

\* Promise.all has resolved: the results are aggregated and returned
Aggregate ==
    /\ report.pc = "pending"
    /\ Len(report.order) = Len(report.roster)
    /\ report' = [report EXCEPT
                     !.pc = "done",
                     !.result = aggregate(report.kind, report.settled,
                                          report.limit)]
    /\ lastOp' = [op |-> "aggregate", kind |-> report.kind]
    /\ UNCHANGED <<now, guilds, summoners, guildSummoners,
                   rankedSoloMatches, arenaMatches, cacheLogs, runs,
                   runsStarted, purge, calls, process, commandInvocations, riot>>

(***************************************************************************)
(* Initial states.  Init is the empty store; the others are the store      *)
(* after guild 7 and its summoners were registered and, for the ...Cached  *)
(* ones, after a pipeline run at Epoch0 that found no match.               *)
(***************************************************************************)
SummonerRows(puuids) ==
    [p \in puuids |->
        [name |-> CHOOSE id \in DOMAIN RiotIdPuuid : RiotIdPuuid[id] = p,
         region |-> PuuidRegion[p]]]

StoreRegisteredIn(registeredGuilds, puuids, cached, zones) ==
    /\ now = Epoch0
    /\ guilds = SetToBag({[guild_id |-> g, name |-> GuildName] :
                             g \in registeredGuilds})
    /\ summoners = SummonerRows(puuids)
    /\ guildSummoners = SetToBag({[guild_id |-> 7, summoner_puuid |-> p] :
                                     p \in puuids})
    /\ rankedSoloMatches = EmptyBag
    /\ arenaMatches = EmptyBag
    /\ cacheLogs = SetToBag({[summoner_puuid |-> p, cached_at |-> Epoch0] :
                                p \in cached})
    /\ runs = [r \in Runs |-> IdleRun]
    /\ runsStarted = 0
    /\ purge = IdlePurge
    /\ lastOp = [op |-> "init"]
    /\ calls = [c \in Callers |-> IdleCall]
    /\ process \in {RunningProcessIn(tz) : tz \in zones}
    /\ commandInvocations = EmptyBag
    /\ riot = NoLookup

StoreRegistered(registeredGuilds, puuids, cached) ==
    StoreRegisteredIn(registeredGuilds, puuids, cached, {UTC})

RegisteredIn(registeredGuilds, puuids, cached, zones) ==
    /\ StoreRegisteredIn(registeredGuilds, puuids, cached, zones)
    /\ report = NoReport

Registered(registeredGuilds, puuids, cached) ==
    RegisteredIn(registeredGuilds, puuids, cached, {UTC})

Init == Registered({}, {}, {})

(***************************************************************************)
(* Spec: two pipeline runs that may overlap, over one summoner whose       *)
(* history was synced today, against an upstream that answers any id list  *)
(* and any queue id.                                                       *)
(***************************************************************************)
InitStore == Registered({7}, {"P1"}, {"P1"})

Next ==
    \/ \E r \in Runs : StartRun(r)
    \/ \E r \in Runs : CheckCached(r)
    \/ \E r \in Runs : CountExisting(r)
    \/ \E r \in Runs : StoreFailure(r)
    \/ \E r \in Runs, ids \in SeqsUpTo(MatchIds, MaxOverlapIds),
          first \in MatchTables :
          FetchIds(r, ids, first)
    \/ \E r \in Runs : FilterNewIds(r)
    \/ \E r \in Runs : FetchIdsFail(r)
    \/ \E r \in Runs : FetchDetailFail(r)
    \/ \E r \in Runs, dbOk \in BOOLEAN,
          info \in DetailInfos(UpstreamQueueIds, {RecentStart}, {Puuids, {}}) :
          ProcessMatch(r, info, dbOk)
    \/ \E r \in Runs : AppendCacheLog(r)

Spec == InitStore /\ [][Next]_vars

\* the number of rows of a match table with one (match id, puuid) key
KeyCount(table, matchId, puuid) ==
    BagCardinality(BagRestrict(table, {row \in BagToSet(table) :
        row.match_id = matchId /\ row.summoner_puuid = puuid}))

\* the number of times an id occurs in a list of ids
Occurrences(ids, id) == Cardinality({i \in 1..Len(ids) : ids[i] = id})

\* C1: every row of the Ranked-Solo table has queue id 420 and every row of
\* the Arena table has queue id 1700, whatever the upstream answers.
C1_QueueIdMatchesTable ==
    /\ \A row \in BagToSet(rankedSoloMatches) :
          row.queue_id = RANKED_SOLO_QUEUE_ID
    /\ \A row \in BagToSet(arenaMatches) : row.queue_id = ARENA_QUEUE_ID

\* C2: each match table holds at most one row per (match id, summoner puuid),
\* also when two overlapping runs both took the same match id as new.
C2_UniquePerMatchAndSummoner ==
    \A matchId \in MatchIds, puuid \in Puuids :
        /\ KeyCount(rankedSoloMatches, matchId, puuid) <= 1
        /\ KeyCount(arenaMatches, matchId, puuid) <= 1

\* a run's insert of a match it had taken as new (once in its list) was
\* rejected by the store although the match has the summoner as participant:
\* the other run stored the row in between
C2_Witness ==
    /\ lastOp.op = "saveFail"
    /\ lastOp.puuid \in lastOp.matchData.participants
    /\ Occurrences(lastOp.before.newIds, lastOp.matchId) = 1
    /\ KeyCount(IF lastOp.table = "arena" THEN arenaMatches
                ELSE rankedSoloMatches, lastOp.matchId, lastOp.puuid) = 1

\* the table of a queue name, as it stands
TableOf(name) == IF name = "arena" THEN arenaMatches ELSE rankedSoloMatches

\* the ids the two reads of a run's batch have found stored
StoredIds(run) == run.rankedMatches \cup run.arenaMatchIds

\* C3: an id of the upstream answer that is stored for the summoner in
\* either match table when that table is read for the deduplication is
\* dropped from the new ids, and no detail fetch and no insert of that batch
\* is for it, whichever queue is iterated.
C3_StoredIdsNotRefetched ==
    /\ lastOp.op = "fetchIds" =>
          StoredIds(runs[lastOp.run]) =
             {id \in Range(lastOp.matchIds) :
                 HasMatch(TableOf(lastOp.first), id, lastOp.puuid)}
    /\ lastOp.op = "ids" =>
          \A id \in Range(lastOp.matchIds) :
             (\/ id \in StoredIds(lastOp.before)
              \/ HasMatch(TableOf(lastOp.before.pending), id, lastOp.puuid))
                => id \notin Range(lastOp.newMatchIds)
    /\ lastOp.op \in {"detailFail", "save", "saveFail"} =>
          lastOp.matchId \notin StoredIds(lastOp.before)

\* queue 420 is iterated, the answer held an id stored in the Arena table
\* only, and another id of the same answer was fetched and saved
C3_Witness ==
    /\ lastOp.op = "save"
    /\ lastOp.requestedQueueId = RANKED_SOLO_QUEUE_ID
    /\ \E id \in StoredIds(lastOp.before) :
          /\ HasMatch(arenaMatches, id, lastOp.puuid)
          /\ ~HasMatch(rankedSoloMatches, id, lastOp.puuid)

\* C4: a fetched match whose detail carries queue id 1700 is inserted into
\* the Arena table and one whose detail carries 420 into the Ranked-Solo
\* table, whatever queue id the ids request carried; the other table is
\* left alone.
C4_RoutedByActualQueue ==
    [][(lastOp'.op = "save"
        /\ <<rankedSoloMatches, arenaMatches>>'
              # <<rankedSoloMatches, arenaMatches>>) =>
          LET row == MatchRow(lastOp'.matchData, lastOp'.puuid)
          IN /\ lastOp'.matchData.queueId = ARENA_QUEUE_ID =>
                   /\ arenaMatches' = BagAdd(arenaMatches, row)
                   /\ rankedSoloMatches' = rankedSoloMatches
             /\ lastOp'.matchData.queueId = RANKED_SOLO_QUEUE_ID =>
                   /\ rankedSoloMatches' = BagAdd(rankedSoloMatches, row)
                   /\ arenaMatches' = arenaMatches]_vars

\* a match asked for under queue 420 whose detail carries 1700 was saved to
\* the Arena table, and one asked for under 1700 carrying 420 to Ranked-Solo
C4_Witness ==
    /\ lastOp.op = "save"
    /\ \/ /\ lastOp.requestedQueueId = RANKED_SOLO_QUEUE_ID
          /\ lastOp.matchData.queueId = ARENA_QUEUE_ID
          /\ HasMatch(arenaMatches, lastOp.matchId, lastOp.puuid)
       \/ /\ lastOp.requestedQueueId = ARENA_QUEUE_ID
          /\ lastOp.matchData.queueId = RANKED_SOLO_QUEUE_ID
          /\ HasMatch(rankedSoloMatches, lastOp.matchId, lastOp.puuid)

(***************************************************************************)
(* SpecPipeline: one pipeline run at a time over one summoner that was     *)
(* never synced (a 30-day window first), against an upstream and a store   *)
(* that may fail at every call, while the operator may run clearMatches.   *)
(***************************************************************************)
InitPipeline == Registered({7}, {"P1"}, {})

NextPipeline ==
    \/ StartRun(1)
    \/ CheckCached(1)
    \/ CountExisting(1)
    \/ StoreFailure(1)
    \/ \E ids \in SeqsUpTo(MatchIds, MaxIds),
          first \in MatchTables :
          FetchIds(1, ids, first)
    \/ FilterNewIds(1)
    \/ FetchIdsFail(1)
    \/ FetchDetailFail(1)
    \/ \E dbOk \in BOOLEAN,
          info \in DetailInfos({RANKED_SOLO_QUEUE_ID, ARENA_QUEUE_ID},
                               {RecentStart}, {Puuids, {}}) :
          ProcessMatch(1, info, dbOk)
    \/ AppendCacheLog(1)
    \/ ClearMatchesRanked(2, TRUE)
    \/ ClearMatchesArena(2, TRUE)

SpecPipeline == InitPipeline /\ [][NextPipeline]_vars

\* C5: a failed ids fetch skips only its batch, a failed detail fetch or save
\* (a missing participant entry included) skips only its match: the run goes
\* on with the next match of the batch, else the next batch of the window,
\* else the next queue or the cache-log append, and never ends in error.
C5_FailureSkipsOneUnit ==
    lastOp.op \in {"idsFail", "detailFail", "saveFail"} =>
       LET b == lastOp.before
           a == runs[lastOp.run]
           fetched == b.daysFetched
                        + (IF b.daysToFetch - b.daysFetched < DAYS_PER_BATCH
                           THEN b.daysToFetch - b.daysFetched
                           ELSE DAYS_PER_BATCH)
       IN /\ a.pc # "idle"
          /\ a.roster = b.roster /\ a.si = b.si
          /\ IF lastOp.op # "idsFail" /\ b.mi < Len(b.newIds)
             THEN /\ a.pc = "match"
                  /\ a.newIds = b.newIds
                  /\ a.mi = b.mi + 1
                  /\ a.daysFetched = b.daysFetched
                  /\ a.qi = b.qi
             ELSE /\ a.daysFetched = fetched
                  /\ fetched < b.daysToFetch => a.pc = "ids" /\ a.qi = b.qi
                  /\ (fetched >= b.daysToFetch /\ b.qi < Len(b.queueIds)) =>
                        a.pc = "check" /\ a.qi = b.qi + 1
                  /\ (fetched >= b.daysToFetch /\ b.qi = Len(b.queueIds)) =>
                        a.pc = "cachelog"

\* the detail of the first of two new matches lacks the summoner, in a batch
\* that is not the last of its window: the run stands at the second match
C5_Witness ==
    /\ lastOp.op = "saveFail"
    /\ lastOp.puuid \notin lastOp.matchData.participants
    /\ lastOp.before.mi = 1
    /\ Len(lastOp.before.newIds) = 2
    /\ lastOp.before.daysFetched + DAYS_PER_BATCH < lastOp.before.daysToFetch
    /\ runs[lastOp.run].pc = "match"
    /\ runs[lastOp.run].mi = 2

(***************************************************************************)
(* SpecWindow: up to MaxRuns pipeline runs, one after the other, over two  *)
(* summoners while the clock advances by half days; the upstream knows at  *)
(* most match M1.                                                          *)
(***************************************************************************)
InitWindow == Registered({7}, {"P1", "P2"}, {})

NextWindow ==
    \/ Tick(MaxTicks)
    \/ StartRun(1)
    \/ CheckCached(1)
    \/ CountExisting(1)
    \/ StoreFailure(1)
    \/ \E ids \in {<<>>, <<"M1">>} : FetchIds(1, ids, "ranked_solo")
    \/ FilterNewIds(1)
    \/ FetchIdsFail(1)
    \/ \E info \in DetailInfos({RANKED_SOLO_QUEUE_ID}, {RecentStart},
                               {Puuids}) :
          ProcessMatch(1, info, TRUE)
    \/ AppendCacheLog(1)

SpecWindow == InitWindow /\ [][NextWindow]_vars

\* C6: a run appends one cache-log row per summoner it processes: the row is
\* written when the last requested queue of the summoner has fetched its
\* whole window, the run then leaves the summoner, and a run that completes
\* has written one row for each summoner of its roster; found matches play
\* no part.
C6_OneCacheLogAfterAllQueues ==
    /\ [](\A r \in Runs :
            LET run == runs[r]
            IN /\ run.pc # "idle" =>
                     run.logged = [i \in 1..(run.si - 1) |->
                                      run.roster[i].puuid]
               /\ run.pc = "cachelog" =>
                     /\ run.qi = Len(run.queueIds)
                     /\ run.daysFetched >= run.daysToFetch)
    /\ [](lastOp.op = "runDone" =>
            lastOp.logged = [i \in 1..Len(lastOp.roster) |->
                                lastOp.roster[i].puuid])
    /\ [][cacheLogs' # cacheLogs =>
            \E r \in Runs :
               /\ runs[r].pc = "cachelog"
               /\ runs[r].qi = Len(runs[r].queueIds)
               /\ cacheLogs' = BagAdd(cacheLogs,
                     [summoner_puuid |-> runs[r].roster[runs[r].si].puuid,
                      cached_at |-> now])
               /\ \/ runs'[r].pc = "idle" /\ runs[r].si = Len(runs[r].roster)
                  \/ runs'[r].si = runs[r].si + 1]_vars

\* a run completed over both summoners and wrote the row of its last
\* summoner although the store holds no match of that summoner
C6_Witness ==
    /\ lastOp.op = "runDone"
    /\ Len(lastOp.roster) = 2
    /\ \E l \in BagToSet(cacheLogs) : l.summoner_puuid = lastOp.puuid
    /\ \A m \in MatchIds :
          /\ ~HasMatch(rankedSoloMatches, m, lastOp.puuid)
          /\ ~HasMatch(arenaMatches, m, lastOp.puuid)

(***************************************************************************)
(* SpecZones: the same runs on a host in any of the time zones, the        *)
(* upstream knowing no match: the windows of the freshness check and of    *)
(* the batches.                                                            *)
(***************************************************************************)
InitZones == RegisteredIn({7}, {"P1", "P2"}, {}, Zones)

NextZones ==
    \/ Tick(MaxTicks)
    \/ StartRun(1)
    \/ CheckCached(1)
    \/ CountExisting(1)
    \/ \E first \in MatchTables : FetchIds(1, <<>>, first)
    \/ FilterNewIds(1)
    \/ FetchIdsFail(1)
    \/ AppendCacheLog(1)

SpecZones == InitZones /\ [][NextZones]_vars

\* the summoner has a cache-log row written within the day (24 hours)
\* before the instant t
SyncedWithinLastDay(puuid, t) ==
    \E l \in BagToSet(cacheLogs) :
       /\ l.summoner_puuid = puuid
       /\ t - l.cached_at <= RECENT_CACHE_DAYS * SecPerDay

\* C7: the freshness check gives a summoner a 1-day window when a cache-log
\* row of that summoner was written within the last day before the check
\* was made, as in a second run on the same day, and a 30-day window when
\* there is no such row.  Violated on a host whose clocks changed within
\* that day.
C7_WindowFollowsCacheLog ==
    lastOp.op = "check" =>
       LET run == runs[lastOp.run]
           puuid == run.roster[run.si].puuid
       IN run.daysToFetch =
             IF SyncedWithinLastDay(puuid, run.checkedAt) THEN 1 ELSE 30

\* the second run, half a day after the first one logged the summoner,
\* fetches one day; the clock advanced while the freshness check was
\* awaited
C7_Witness ==
    /\ lastOp.op = "check"
    /\ runsStarted = 2
    /\ runs[lastOp.run].daysToFetch = 1
    /\ runs[lastOp.run].checkedAt < now
    /\ LET puuid == runs[lastOp.run].roster[runs[lastOp.run].si].puuid
       IN /\ \E l \in BagToSet(cacheLogs) :
                /\ l.summoner_puuid = puuid
                /\ l.cached_at = runs[lastOp.run].checkedAt - TickSec
          /\ \A l \in BagToSet(cacheLogs) :
                l.summoner_puuid = puuid => l.cached_at < now

\* on a host whose clocks went forward since, a row written exactly 24 hours
\* before the check is older than the local day and the summoner is fetched
\* with 30 days
C7_WitnessClockChange ==
    /\ lastOp.op = "check"
    /\ process.tz = ClocksForward
    /\ runs[lastOp.run].daysToFetch = 30
    /\ SyncedWithinLastDay(runs[lastOp.run].roster[runs[lastOp.run].si].puuid,
                           runs[lastOp.run].checkedAt)

\* the number of batches of a window of D days: ceil(D / 5)
NumBatches(D) == (D + 4) \div 5

\* C8: the k-th ids request of a summoner and queue spans the days
\* 5(k-1) .. min(5k, D) back from the moment it is made: the first batch
\* ends at now, every batch is at most 5 days long and ends at the start of
\* the one before it or later, so no gap is left, and the last one starts D
\* days before its request; the loop makes ceil(D/5) requests, one after
\* the other, and then returns (6 for 30 days, 1 for 1 day).  Violated on a
\* host whose clocks change inside the window.
C8_BatchesCoverWindow ==
    \A r \in Runs :
       LET run == runs[r]
           k == run.nBatches
           D == run.daysToFetch
           returned == run.pc = "cachelog" \/ (run.pc = "check" /\ run.qi > 1)
       IN /\ k <= NumBatches(D)
          /\ run.pc \in {"ids", "dedupe", "match"} =>
                /\ k * DAYS_PER_BATCH < D + 5
                /\ run.daysFetched = (k - 1) * DAYS_PER_BATCH
          /\ k >= 1 =>
                /\ run.curEnd - run.curStart > 0
                /\ run.curEnd - run.curStart <= DAYS_PER_BATCH * SecPerDay
                /\ k > 1 => run.curEnd >= run.prevStart
                /\ k = 1 => run.curEnd = run.firstEnd
          /\ (/\ lastOp.op \in {"count", "ids", "idsFail", "detailFail",
                              "save", "saveFail"}
              /\ lastOp.run = r
              /\ run.pc = "ids") =>
                /\ run.curEnd = now - (k - 1) * DAYS_PER_BATCH * SecPerDay
                /\ run.curStart = now - (IF k * DAYS_PER_BATCH < D
                                         THEN k * DAYS_PER_BATCH ELSE D)
                                           * SecPerDay
          /\ returned =>
                /\ k = NumBatches(D)
                /\ D = 30 => k = 6
                /\ D = 1 => k = 1
                /\ run.curEnd - run.curStart =
                      (D - (k - 1) * DAYS_PER_BATCH) * SecPerDay

\* the third request of a 30-day window ends before the start of the second
\* one: the ids of the time between the two are never requested
C8_GapBetweenBatches ==
    \E r \in Runs :
       /\ runs[r].nBatches = 3
       /\ runs[r].daysToFetch = 30
       /\ runs[r].curEnd < runs[r].prevStart

\* a 30-day window was fetched in 6 batches while the clock advanced between
\* the first and the last request
C8_SixBatches ==
    \E r \in Runs :
       /\ runs[r].pc = "cachelog"
       /\ runs[r].daysToFetch = 30
       /\ runs[r].nBatches = 6
       /\ runs[r].curEnd > runs[r].firstEnd - 25 * SecPerDay

(***************************************************************************)
(* SpecRetention: the two purges next to a pipeline run, to the clock      *)
(* advancing and to summoner P1 leaving and rejoining guild 7.  Both       *)
(* summoners were synced today, the upstream knows match M1, played 40 or  *)
(* 10 days ago in either queue.                                            *)
(***************************************************************************)
InitRetention == Registered({7}, {"P1", "P2"}, {"P1", "P2"})

NextRetention ==
    \/ Tick(1)
    \/ RemoveSummonerFind(1, "Ann #NA1", 7, TRUE)
    \/ RemoveSummonerDelete(1, TRUE)
    \/ AddSummoner("Ann #NA1", 7, "P1", PuuidRegion["P1"], "none")
    \/ StartRunOf(1, 1)
    \/ CheckCached(1)
    \/ CountExisting(1)
    \/ \E ids \in {<<>>, <<"M1">>} : FetchIds(1, ids, "ranked_solo")
    \/ FilterNewIds(1)
    \/ \E info \in DetailInfos({RANKED_SOLO_QUEUE_ID, ARENA_QUEUE_ID},
                               {OldStart, RecentStart}, {Puuids}) :
          ProcessMatch(1, info, TRUE)
    \/ AppendCacheLog(1)
    \/ \E d \in PurgeDays : DeleteMatchesOlderThan(d)
    \/ PurgeOldRanked
    \/ PurgeOldArena
    \/ PurgeOrphanRoster
    \/ PurgeOrphanRanked
    \/ PurgeOrphanArena

SpecRetention == InitRetention /\ [][NextRetention]_vars

\* the rows of a match table whose summoner is one of puuids
RowsOf(table, puuids) ==
    BagRestrict(table, {row \in BagToSet(table) :
                           row.summoner_puuid \in puuids})

\* the rows of a match table that started at most days before time t
RowsWithin(table, t, days) ==
    BagRestrict(table, {row \in BagToSet(table) :
                           t - row.game_start_timestamp <= days * SecPerDay})

\* C9: the orphan purge leaves in each match table exactly the rows of the
\* summoners that were tracked by a guild when it was called, and returns
\* the number of rows it deleted from both tables.
C9_OrphanPurgeDeletesUntracked ==
    [][/\ (purge.pc = "orphanRanked" /\ purge'.pc = "orphanArena") =>
             /\ rankedSoloMatches' = RowsOf(rankedSoloMatches, purge.tracked)
             /\ purge'.rankedCount = BagCardinality(rankedSoloMatches)
                                       - BagCardinality(rankedSoloMatches')
       /\ (purge.pc = "orphanArena" /\ purge'.pc = "idle") =>
             /\ arenaMatches' = RowsOf(arenaMatches, purge.tracked)
             /\ lastOp'.totalDeleted =
                   purge.rankedCount + BagCardinality(arenaMatches)
                                     - BagCardinality(arenaMatches')]_vars

\* C10: purgeMatchesOlderThan(days) leaves in each match table exactly the
\* rows that started at most days before the call (a row 40 days old goes
\* with days = 31, a row 10 days old stays), whatever time passes between
\* the call and its two statements; it touches one table per statement and
\* returns the number of rows deleted from both tables.
C10_AgePurgeDeletesOlderRows ==
    [][/\ lastOp'.op = "purgeOldCall" =>
             /\ rankedSoloMatches' = rankedSoloMatches
             /\ arenaMatches' = arenaMatches
             /\ purge'.calledAt = now
       /\ (purge.pc = "oldRanked" /\ purge'.pc = "oldArena") =>
             /\ rankedSoloMatches' =
                   RowsWithin(rankedSoloMatches, purge.calledAt, purge.days)
             /\ arenaMatches' = arenaMatches
             /\ purge'.rankedCount = BagCardinality(rankedSoloMatches)
                                       - BagCardinality(rankedSoloMatches')
       /\ (purge.pc = "oldArena" /\ purge'.pc = "idle") =>
             /\ arenaMatches' =
                   RowsWithin(arenaMatches, purge.calledAt, purge.days)
             /\ rankedSoloMatches' = rankedSoloMatches
             /\ lastOp'.totalDeleted =
                   purge.rankedCount + BagCardinality(arenaMatches)
                                     - BagCardinality(arenaMatches')]_vars

\* purgeMatchesOlderThan(31) has deleted a row that was 40 days old when it
\* was called and the store still holds a row that was 10 days old then,
\* the clock having advanced since the call
C10_Witness ==
    /\ lastOp.op = "purgeOldArena"
    /\ lastOp.days = 31
    /\ lastOp.totalDeleted >= 1
    /\ lastOp.calledAt < now
    /\ \E row \in BagToSet(rankedSoloMatches) \cup BagToSet(arenaMatches) :
          lastOp.calledAt - row.game_start_timestamp = 10 * SecPerDay
    /\ \A row \in BagToSet(rankedSoloMatches) \cup BagToSet(arenaMatches) :
          lastOp.calledAt - row.game_start_timestamp # 40 * SecPerDay

\* purgeMatchesOlderThan(10) was called when a row was exactly 10 days old;
\* the row is older than that when the statements are made, and it is kept
C10_WitnessKeptAtCutoff ==
    /\ lastOp.op = "purgeOldArena"
    /\ lastOp.days = 10
    /\ lastOp.calledAt < now
    /\ \E row \in BagToSet(rankedSoloMatches) \cup BagToSet(arenaMatches) :
          lastOp.calledAt - row.game_start_timestamp = 10 * SecPerDay

(***************************************************************************)
(* SpecRegistry: guild and summoner registration from an empty store, by   *)
(* two API clients whose calls interleave at every store call, with store  *)
(* failures and unresolvable Riot ids.                                     *)
(***************************************************************************)
NextRegistry ==
    \/ \E c \in Callers, g \in RegistryGuildIds, dbOk \in BOOLEAN :
          AddGuildFind(c, GuildName, g, dbOk)
    \/ \E c \in Callers, dbOk \in BOOLEAN : AddGuildCreate(c, dbOk)
    \/ \E id \in RiotIds, g \in RegistryGuildIds,
          puuid \in Puuids \cup {NoPuuid},
          region \in {PuuidRegion[p] : p \in Puuids} \cup {NoRegion},
          dbFail \in {"none", "upsert", "insert"} :
          AddSummoner(id, g, puuid, region, dbFail)
    \/ \E id \in RiotIds, g \in RegistryGuildIds, dbOk \in BOOLEAN :
          RemoveSummonerFind(1, id, g, dbOk)
    \/ \E dbOk \in BOOLEAN : RemoveSummonerDelete(1, dbOk)

SpecRegistry == Init /\ [][NextRegistry]_vars

\* the number of guild_summoners rows of a guild and a summoner
MembershipCount(memberTable, guildId, puuid) ==
    BagCardinality(BagRestrict(memberTable,
        {m \in BagToSet(memberTable) :
            m.guild_id = guildId /\ m.summoner_puuid = puuid}))

\* the number of guilds rows with an external id
GuildCount(guildTable, guildId) ==
    BagCardinality(BagRestrict(guildTable,
        {g \in BagToSet(guildTable) : g.guild_id = guildId}))

\* C11: a call of registerSummoner (addSummoner) that succeeds leaves the
\* summoner row written and the membership stored; a call that fails, at
\* whatever step, leaves both tables as they were: never one write alone.
C11_RegisterSummonerAtomic ==
    [][lastOp'.op = "addSummoner" =>
          IF lastOp'.ok
          THEN /\ lastOp'.puuid \in DOMAIN summoners'
               /\ summoners'[lastOp'.puuid] =
                     [name |-> lastOp'.riotId, region |-> lastOp'.region]
               /\ MembershipCount(guildSummoners', lastOp'.guildId,
                                  lastOp'.puuid) >= 1
          ELSE /\ summoners' = summoners
               /\ guildSummoners' = guildSummoners]_vars

\* registerSummoner failed at the membership insert for a summoner that had
\* no row: the upsert it had made is not in the store
C11_Witness ==
    /\ lastOp.op = "addSummoner"
    /\ ~lastOp.ok
    /\ lastOp.failedAt = "insert"
    /\ lastOp.puuid \notin DOMAIN summoners

\* C12: registering a summoner to a guild it is already a member of raises
\* no error (the store working) and leaves exactly one guild_summoners row
\* for that guild and PUUID.
C12_SecondRegistrationIsNoOp ==
    [][(/\ lastOp'.op = "addSummoner"
        /\ lastOp'.puuid # NoPuuid
        /\ lastOp'.region # NoRegion
        /\ lastOp'.failedAt = "none"
        /\ MembershipCount(guildSummoners, lastOp'.guildId,
                           lastOp'.puuid) >= 1) =>
             /\ lastOp'.ok
             /\ MembershipCount(guildSummoners', lastOp'.guildId,
                                lastOp'.puuid) = 1]_vars

\* a second registration of a member has returned without an error
C12_Witness ==
    /\ lastOp.op = "addSummoner"
    /\ lastOp.wasMember
    /\ lastOp.ok
    /\ MembershipCount(guildSummoners, lastOp.guildId, lastOp.puuid) = 1

\* C13: removeSummoner, the store answering its calls, fails with a
\* not-found error and changes no row when no summoner has the display name
\* at its lookup, and when the summoner it found has no membership of the
\* guild at its delete; otherwise it removes exactly that membership.  A
\* call the store rejects changes no row either.
C13_RemoveSummonerNotFoundOrExact ==
    [][/\ lastOp'.op = "removeSummonerFind" =>
             /\ lastOp'.puuid \in DOMAIN summoners
             /\ summoners[lastOp'.puuid].name = lastOp'.riotId
             /\ guildSummoners' = guildSummoners
       /\ lastOp'.op = "removeSummoner" =>
             LET named == {p \in DOMAIN summoners :
                              summoners[p].name = lastOp'.riotId}
                 member == [guild_id |-> lastOp'.guildId,
                            summoner_puuid |-> lastOp'.puuid]
                 rejected == lastOp'.error = "StoreFailure"
             IN /\ summoners' = summoners
                /\ guilds' = guilds
                /\ rejected => (~lastOp'.ok /\ guildSummoners' = guildSummoners)
                /\ (~rejected /\ lastOp'.at = "findFirst") =>
                      /\ named = {}
                      /\ ~lastOp'.ok
                      /\ lastOp'.error = "NotFoundInDatabase"
                      /\ guildSummoners' = guildSummoners
                /\ (~rejected /\ lastOp'.at = "deleteMany") =>
                      IF MembershipCount(guildSummoners, lastOp'.guildId,
                                         lastOp'.puuid) = 0
                      THEN /\ ~lastOp'.ok
                           /\ lastOp'.error = "NotAssociatedWithGuild"
                           /\ guildSummoners' = guildSummoners
                      ELSE /\ lastOp'.ok
                           /\ guildSummoners' (+) SetToBag({member}) =
                                 guildSummoners]_vars

\* a membership was removed while the summoner stays a member of the other
\* guild
C13_Witness ==
    /\ lastOp.op = "removeSummoner"
    /\ lastOp.at = "deleteMany"
    /\ lastOp.ok
    /\ MembershipCount(guildSummoners, lastOp.guildId, lastOp.puuid) = 0
    /\ \E g \in RegistryGuildIds :
          MembershipCount(guildSummoners, g, lastOp.puuid) = 1

\* C15 as stated: registerGuild (addGuild) called with a registered external
\* id signals an error to its caller and creates no row, and no two guild
\* rows share an external id.
C15_DuplicateGuildSignalsConflict ==
    /\ (lastOp.op = "addGuild" /\ lastOp.existed) => lastOp.threw
    /\ \A g \in RegistryGuildIds : GuildCount(guilds, g) <= 1

\* C15 amended: addGuild called with a registered external id raises no
\* error: it returns false to its caller, whether the id was found by the
\* lookup or rejected by the unique index at the create; it creates no row,
\* and no two guild rows share an external id.
C15_DuplicateGuildReturnsFalse ==
    /\ (lastOp.op = "addGuild" /\ lastOp.existed) =>
          (~lastOp.threw /\ ~lastOp.returned)
    /\ \A g \in RegistryGuildIds : GuildCount(guilds, g) <= 1

\* two calls raced: the second found no guild at its lookup and was
\* rejected by the unique index at its create
C15_Witness ==
    /\ lastOp.op = "addGuild"
    /\ lastOp.at = "create"
    /\ lastOp.existed
    /\ ~lastOp.returned
    /\ GuildCount(guilds, lastOp.guildId) = 1

(***************************************************************************)
(* SpecApi: requests to the summoner routes with any x-api-key value,      *)
(* against a store where guild 7 tracks P1 and guild 8 is not registered.  *)
(***************************************************************************)
InitApi == Registered({7}, {"P1"}, {})

NextApi ==
    \/ \E apiKey \in ApiKeys, id \in RiotIds \cup {NoRiotId},
          g \in RegistryGuildIds \cup {NoGuildId},
          puuid \in Puuids \cup {NoPuuid},
          region \in {PuuidRegion[p] : p \in Puuids} \cup {NoRegion},
          dbFail \in {"none", "upsert", "insert"} :
          PostSummoners(apiKey, id, g, puuid, region, dbFail)
    \/ \E apiKey \in ApiKeys, id \in RiotIds \cup {NoRiotId},
          g \in RegistryGuildIds \cup {NoGuildId}, dbOk \in BOOLEAN :
          DeleteSummoners(1, apiKey, id, g, dbOk)
    \/ \E dbOk \in BOOLEAN : DeleteSummonersAnswer(1, dbOk)
    \/ \E apiKey \in ApiKeys, puuid \in {"P1", NoPuuid},
          name \in {"Ann #NA1", NoRiotId}, dbOk \in BOOLEAN :
          PostCacheTimestamp(apiKey, puuid, name, dbOk)

SpecApi == InitApi /\ [][NextApi]_vars

\* C14 as stated: a handled request whose model call signals InvalidInput is
\* answered 400, one whose model call signals NotFound is answered 404, and
\* 500 answers only other failures.
C14_ErrorKindsMapToStatus ==
    (lastOp.op = "http" /\ lastOp.handled) =>
       /\ lastOp.error \in {"MissingFields", "InvalidRiotAccount",
                            "RegionUndetermined"} => lastOp.status = 400
       /\ lastOp.error \in {"NotFoundInDatabase", "NotAssociatedWithGuild"}
             => lastOp.status = 404
       /\ lastOp.status = 500 => lastOp.error = "StoreFailure"

\* C16 as stated: a request without the x-api-key header is answered 401,
\* one with any value other than the configured secret is answered 403,
\* neither reaching a route handler; the secret reaches the handler.
C16_ApiKeyAbsent401Different403 ==
    lastOp.op = "http" =>
       /\ lastOp.apiKey = NoHeader => (lastOp.status = 401 /\ ~lastOp.handled)
       /\ lastOp.apiKey \notin {NoHeader, API_KEY}
             => (lastOp.status = 403 /\ ~lastOp.handled)
       /\ lastOp.apiKey = API_KEY => lastOp.handled

\* C16 amended: a route handler is invoked only for a request whose
\* x-api-key equals the configured secret; a request without the header or
\* with an empty value is answered 401, one with a non-empty different value
\* 403, and neither changes a row.
C16_OnlySecretReachesHandler ==
    /\ [](lastOp.op = "http" =>
            /\ lastOp.handled <=> lastOp.apiKey = API_KEY
            /\ lastOp.apiKey \in {NoHeader, ""} => lastOp.status = 401
            /\ lastOp.apiKey \notin {NoHeader, "", API_KEY}
                  => lastOp.status = 403)
    /\ [][(lastOp'.op = "http" /\ ~lastOp'.handled) =>
             (summoners' = summoners /\ guildSummoners' = guildSummoners
              /\ guilds' = guilds)]_vars

\* a request whose x-api-key header is empty was answered 401 before any
\* handler
C16_Witness ==
    /\ lastOp.op = "http"
    /\ lastOp.apiKey = ""
    /\ lastOp.status = 401
    /\ ~lastOp.handled

(***************************************************************************)
(* SpecScheduler: the three scheduled tasks over the store of guild 7 and  *)
(* P1, with an upstream that has no match; store calls of a run or of a    *)
(* purge may fail, and the hourly tick may fire while a run is executing.  *)
(***************************************************************************)
NextScheduler ==
    \/ \E r \in Runs : CronHourly(r)
    \/ \E r \in Runs :
          \/ CheckCached(r)
          \/ CountExisting(r)
          \/ \E first \in MatchTables : FetchIds(r, <<>>, first)
          \/ FilterNewIds(r)
          \/ FetchIdsFail(r)
          \/ AppendCacheLog(r)
          \/ StoreFailure(r)
    \/ CronDaily
    \/ PurgeOldRanked
    \/ PurgeOldArena
    \/ CronWeekly
    \/ PurgeOrphanRanked
    \/ PurgeOrphanArena
    \/ PurgeFailure

SpecScheduler == InitStore /\ [][NextScheduler]_vars

\* the model can hold one more pipeline run: the run budget lasts and a
\* run slot is free
RunCapacity == runsStarted < MaxRuns /\ \E r \in Runs : runs[r].pc = "idle"

\* C17: after a run of a scheduled task has failed the process is alive and
\* the three tasks are scheduled as before, so that each of them fires
\* again (the hourly one while the model can hold one more run, a purge
\* when no purge is in progress); the failing step changes nothing of the
\* other tasks' runs.
C17_TaskFailureIsContained ==
    /\ [](lastOp.op \in {"runFailed", "purgeFailed"} =>
            /\ process.alive
            /\ process.scheduled = Tasks
            /\ RunCapacity => ENABLED (\E r \in Runs : CronHourly(r))
            /\ purge.pc = "idle" => (ENABLED CronDaily /\ ENABLED CronWeekly))
    /\ [][/\ lastOp'.op = "runFailed" =>
               /\ purge' = purge
               /\ \A r \in Runs : r # lastOp'.run => runs'[r] = runs[r]
          /\ lastOp'.op = "purgeFailed" => runs' = runs]_vars

\* a purge has just failed while a pipeline run is executing: the process
\* lives and the run goes on
C17_Witness ==
    /\ lastOp.op = "purgeFailed"
    /\ process.alive
    /\ \E r \in Runs : runs[r].pc # "idle"

\* C18: while a run of the hourly task is executing, the next hourly tick
\* starts a second run (the model being able to hold one more run), which
\* executes concurrently with the first.
C18_NoOverlapGuard ==
    ((\E r \in Runs : runs[r].pc # "idle") /\ RunCapacity)
       => ENABLED (\E r \in Runs : CronHourly(r))

\* two runs of the hourly task are executing at the same time
C18_Witness == \A r \in Runs : runs[r].pc # "idle"

(***************************************************************************)
(* SpecReport: a leader report of the last 30 days or a rankings request   *)
(* since 30 days before Epoch0, over any list of the guild's summoners and *)
(* any stats, the stat computations completing in any order while the      *)
(* clock advances; the row of the last summoner with data may be exactly   *)
(* 30 days old at Epoch0.                                                  *)
(***************************************************************************)
\* the start of the period of the requests: 30 days before the first
\* instant of the model
ReportStartEpoch == Epoch0 - 30 * SecPerDay

\* the store of a report: guild 7 with the members given; every summoner
\* has one Ranked-Solo row: exactly 30 days old for the ones atEdge, else 10
\* days old for the ones withData and 40 days old for the others
ReportStore(members, withData, atEdge) ==
    /\ now = Epoch0
    /\ guilds = SetToBag({[guild_id |-> 7, name |-> GuildName]})
    /\ summoners = SummonerRows(DOMAIN PuuidRegion)
    /\ guildSummoners = SetToBag({[guild_id |-> 7, summoner_puuid |-> p] :
                                     p \in members})
    /\ rankedSoloMatches =
          SetToBag({[match_id |-> "M1", summoner_puuid |-> p,
                     queue_id |-> RANKED_SOLO_QUEUE_ID,
                     game_start_timestamp |->
                        CASE p \in atEdge -> ReportStartEpoch
                          [] p \in withData -> RecentStart
                          [] OTHER -> OldStart] :
                       p \in DOMAIN PuuidRegion})
    /\ arenaMatches = EmptyBag
    /\ cacheLogs = EmptyBag
    /\ runs = [r \in Runs |-> IdleRun]
    /\ runsStarted = 0
    /\ purge = IdlePurge
    /\ lastOp = [op |-> "init"]
    /\ calls = [c \in Callers |-> IdleCall]
    /\ process = RunningProcess
    /\ commandInvocations = EmptyBag
    /\ riot = NoLookup

\* the summoners that have rows in the period, by the stats of their rows
WithData(stats) ==
    {RiotIdPuuid[n] : n \in {m \in DOMAIN stats : stats[m] # NullStats}}

InitReport ==
    \E kind \in {"report", "rankings"}, limit \in Limits :
       \E stats \in {f \in [ReportNames ->
                              UNION {StatsValues(n) : n \in ReportNames}] :
                       \A n \in ReportNames : f[n] \in StatsValues(n)} :
          \E atEdge \in {{}, {"P3"} \cap WithData(stats)} :
          /\ kind = "report" => limit = 1
          /\ ReportStore(DOMAIN PuuidRegion, WithData(stats), atEdge)
          /\ report = RequestedReport(kind, 7, "ranked_solo", 30,
                                      ReportStartEpoch, stats, limit)

NextReport ==
    \/ Tick(1)
    \/ \E dbOk \in BOOLEAN : ReadGuild(dbOk)
    \/ \E dbOk \in BOOLEAN : ReadSummoners(dbOk)
    \/ \E i \in 1..Cardinality(ReportNames), dbOk \in BOOLEAN :
          SettleStat(i, dbOk)
    \/ Aggregate

SpecReport == InitReport /\ [][NextReport]_vars

\* the stats of the summoners in the order of the guild's summoner list,
\* from the rows stored: null for a summoner without a row in the period
InListOrder(rep) ==
    [i \in 1..Len(rep.roster) |->
        IF sinceWhere(rankedSoloMatches, rep.roster[i].puuid,
                      rep.startDateEpoch) = {}
        THEN NullStats
        ELSE rep.stats[rep.roster[i].name]]

\* C19: the leader report and the rankings returned are the ones computed
\* from the summoners' stats in the order of the guild's summoner list,
\* whatever the order in which the stat computations completed.
C19_ResultIndependentOfCompletionOrder ==
    (report.pc = "done" /\ lastOp.op = "aggregate") =>
       report.result = aggregate(report.kind, InListOrder(report),
                                 report.limit)

\* a request whose computations completed in another order than the list's
\* has returned a result
C19_Witness ==
    /\ report.pc = "done"
    /\ lastOp.op = "aggregate"
    /\ ~report.result.null
    /\ report.order # <<1, 2, 3>>
    /\ \E i, j \in 1..3 :
          /\ i < j
          /\ report.settled[i].is = "stats"
          /\ report.settled[j].is = "stats"
          /\ report.settled[i].stats = report.settled[j].stats

\* the positions of the list whose summoner has stats: a row in the period
WithStats(rep) ==
    {i \in 1..Len(rep.roster) : InListOrder(rep)[i].is = "stats"}

\* C20: for every stat field the leader report records the greatest value
\* among the summoners and, of the summoners that have it, the name of the
\* one that comes first in the guild's summoner list.
C20_LeaderIsFirstStrictMaximum ==
    (/\ report.pc = "done"
     /\ report.kind = "report"
     /\ ~report.result.null
     /\ ~report.result.threw) =>
       /\ DOMAIN report.result.value = StatNames
       /\ \A statName \in StatNames :
             LET val(i) == InListOrder(report)[i].stats[statName]
                 leader == CHOOSE i \in WithStats(report) :
                              /\ \A j \in WithStats(report) : val(j) <= val(i)
                              /\ \A j \in WithStats(report) :
                                    j < i => val(j) < val(i)
             IN report.result.value[statName] =
                   [MaxValue |-> val(leader),
                    Name |-> report.roster[leader].name]

\* a report where two summoners tie for the greatest value of a stat and
\* the first of them in the list is recorded
C20_Witness ==
    /\ report.pc = "done"
    /\ report.kind = "report"
    /\ ~report.result.null
    /\ ~report.result.threw
    /\ \E statName \in StatNames, i, j \in WithStats(report) :
          /\ i < j
          /\ report.stats[report.roster[i].name].stats[statName] = MaxStat
          /\ report.stats[report.roster[j].name].stats[statName] = MaxStat
          /\ report.result.value[statName].Name = report.roster[i].name

\* a report whose period began after the request was made: the clock
\* advanced before the summoners were read, the row of the last summoner,
\* 30 days old at the request, is outside the period, and another summoner
\* is recorded
C20_WitnessPeriodMoved ==
    /\ report.pc = "done"
    /\ report.kind = "report"
    /\ ~report.result.null
    /\ ~report.result.threw
    /\ report.startDateEpoch > ReportStartEpoch
    /\ \E i \in 1..Len(report.roster) :
          /\ report.stats[report.roster[i].name].is = "stats"
          /\ i \notin WithStats(report)

(***************************************************************************)
(* SpecRankings: a rankings request for guild 7 (stored) or guild 8 (not   *)
(* stored), with a queue key that has a handler, has none or names an      *)
(* inherited property, over a guild of zero to three summoners with any    *)
(* stats.                                                                  *)
(***************************************************************************)
RankingMembers == {{}, {"P1"}, {"P1", "P2"}, {"P1", "P2", "P3"}}

\* the queue keys of the requests: one with a handler, one with none, and
\* one that names a property every object inherits
RankingQueueKeys == {"ranked_solo", "aram", "constructor"}

\* the stats of a summoner in a rankings request: avgPlacement up to
\* MaxRankValue, avgKills up to MaxStat
RankStatsValues(name) ==
    {x \in StatsValuesUpTo(name, MaxRankValue) :
        x # NullStats => x.stats["avgKills"] <= MaxStat}

\* a rankings request over the store of a guild with these members, a
\* summoner that is no member having no row in the period
RankingsRequested(guildId, queueType, limit, members, stats) ==
    /\ \A n \in ReportNames :
          RiotIdPuuid[n] \notin members => stats[n] = NullStats
    /\ ReportStore(members, WithData(stats), {})
    /\ report = RequestedReport("rankings", guildId, queueType, 30,
                                ReportStartEpoch, stats, limit)

InitRankings ==
    \E guildId \in RegistryGuildIds, queueType \in RankingQueueKeys,
       limit \in Limits, members \in RankingMembers :
       \E stats \in {f \in [ReportNames ->
                              UNION {RankStatsValues(n) : n \in ReportNames}] :
                       \A n \in ReportNames : f[n] \in RankStatsValues(n)} :
          RankingsRequested(guildId, queueType, limit, members, stats)

NextRankings ==
    \/ \E dbOk \in BOOLEAN : ReadGuild(dbOk)
    \/ \E dbOk \in BOOLEAN : ReadSummoners(dbOk)
    \/ \E i \in 1..Cardinality(ReportNames) : SettleStat(i, TRUE)
    \/ Aggregate

SpecRankings == InitRankings /\ [][NextRankings]_vars

(***************************************************************************)
(* SpecResolve: a rankings request while summoners leave guild 7 and       *)
(* while reads of the store may be rejected; a summoner has rows in the    *)
(* period or has none.                                                     *)
(***************************************************************************)
InitResolve ==
    \E guildId \in RegistryGuildIds, queueType \in RankingQueueKeys,
       limit \in Limits, members \in RankingMembers :
       \E stats \in {f \in [ReportNames ->
                              UNION {StatsValuesUpTo(n, 0) :
                                        n \in ReportNames}] :
                       \A n \in ReportNames :
                          f[n] \in StatsValuesUpTo(n, 0)} :
          RankingsRequested(guildId, queueType, limit, members, stats)

NextResolve ==
    \/ \E dbOk \in BOOLEAN : ReadGuild(dbOk)
    \/ \E dbOk \in BOOLEAN : ReadSummoners(dbOk)
    \/ \E i \in 1..Cardinality(ReportNames), dbOk \in BOOLEAN :
          SettleStat(i, dbOk)
    \/ Aggregate
    \/ \E id \in RiotIds : RemoveSummonerFind(1, id, 7, TRUE)
    \/ RemoveSummonerDelete(1, TRUE)

SpecResolve == InitResolve /\ [][NextResolve]_vars

\* every stat computation of the request has resolved to null
NoMatchData(rep) ==
    \A i \in 1..Len(rep.roster) : rep.settled[i].is = "null"

\* C21 as stated: buildRankings (fetchRankings) returns an absent result
\* when the guild does not exist, when the guild has no summoners, when the
\* queue key has no handler, and when no summoner has any match data: a
\* request whose reads the store answered and whose queue key is none of
\* the keys of QUEUE_HANDLERS returns, and returns null.
C21_AbsentAlsoWithoutData ==
    /\ (report.pc = "done" /\ ~report.result.threw) =>
          ((\/ report.roster = <<>>
            \/ NoMatchData(report)) => report.result.null)
    /\ (/\ report.pc = "done"
        /\ report.result.error # "StoreFailure"
        /\ report.queueType \notin DOMAIN QUEUE_HANDLERS) =>
          (~report.result.threw /\ report.result.null)

\* the membership rows of a guild
MembersOf(guildId) ==
    {m \in BagToSet(guildSummoners) : m.guild_id = guildId}

\* C21, what fetchRankings does: it returns an absent result exactly when
\* its guild read finds no guild, when its summoner read finds no member of
\* the guild, or when the queue key is found neither in QUEUE_HANDLERS nor
\* among the properties it inherits; under an inherited property name it
\* throws; when no summoner has any match data it returns a result without
\* any stat field.
C21_AbsentOnlyWhenUnresolved ==
    /\ [][(lastOp'.op = "readGuild" /\ lastOp'.dbOk) =>
             /\ report'.pc = "done" <=>
                   \A g \in BagToSet(guilds) : g.guild_id # report.guildId
             /\ report'.pc = "done" => report'.result.null]_vars
    /\ [][(lastOp'.op = "readSummoners" /\ lastOp'.dbOk) =>
             /\ report'.pc = "done" <=>
                   \/ MembersOf(report.guildId) = {}
                   \/ report.queueType \notin {"ranked_solo", "arena"}
             /\ report'.pc = "done" =>
                   /\ report'.result.null <=>
                         \/ MembersOf(report.guildId) = {}
                         \/ report.queueType \notin ObjectPrototypeKeys
                   /\ report'.result.threw <=> ~report'.result.null
                   /\ report'.result.threw =>
                         report'.result = FetchMatchesNotAFunction]_vars
    /\ []((report.pc = "done" /\ lastOp.op = "aggregate") =>
            /\ ~report.result.null
            /\ NoMatchData(report) => report.result.value = <<>>)

\* rankings of a stored guild with three summoners and a handled queue,
\* none of the summoners having match data, were returned: not absent, and
\* empty
C21_Witness ==
    /\ report.pc = "done"
    /\ lastOp.op = "aggregate"
    /\ Len(report.roster) = 3
    /\ NoMatchData(report)
    /\ ~report.result.null
    /\ report.result.value = <<>>

\* the last member left the guild between the guild read and the summoner
\* read of a request: the request returned absent
C21_WitnessRemovedBetweenReads ==
    /\ report.pc = "done"
    /\ lastOp.op = "readSummoners"
    /\ lastOp.absent = "summoners"
    /\ report.result.null

\* a rankings request for a stored guild with summoners under the queue key
\* "constructor", every read answered by the store, threw
C21_WitnessInheritedKeyThrew ==
    /\ report.pc = "done"
    /\ lastOp.op = "readSummoners"
    /\ lastOp.dbOk
    /\ report.queueType = "constructor"
    /\ MembersOf(report.guildId) # {}
    /\ report.result = FetchMatchesNotAFunction

\* the same request under a queue key that is found nowhere returned absent
C21_WitnessNoHandlerAbsent ==
    /\ report.pc = "done"
    /\ lastOp.op = "readSummoners"
    /\ lastOp.absent = "handler"
    /\ report.queueType = "aram"
    /\ report.result.null

\* a is at least as good as b in the ranking of a stat
RanksBefore(statName, a, b) ==
    IF statName = "avgPlacement" THEN a <= b ELSE a >= b

\* C22: for every stat field the rankings hold one {name, value} entry per
\* summoner that has data, ordered by value descending (ascending for
\* avgPlacement), cut to the first limit entries: no entry left out ranks
\* strictly before an entry of the list.
C22_RankingsSortedAndTruncated ==
    (report.pc = "done" /\ ~report.result.null /\ ~report.result.threw) =>
       \A statName \in DOMAIN report.result.value :
          LET list == report.result.value[statName]
              with == WithStats(report)
              val(i) == report.stats[report.roster[i].name].stats[statName]
              listed == {i \in with :
                           \E k \in 1..Len(list) :
                              list[k] = [name |-> report.roster[i].name,
                                         value |-> val(i)]}
          IN /\ Len(list) = Min(report.limit, Cardinality(with))
             /\ Cardinality(listed) = Len(list)
             /\ \A k \in 1..Len(list) - 1 :
                   RanksBefore(statName, list[k].value, list[k + 1].value)
             /\ \A i \in with \ listed, k \in 1..Len(list) :
                   RanksBefore(statName, list[k].value, val(i))

\* the avgPlacement values 0, 2, 1 of the list's three summoners with
\* limit 2 gave the entries 0, 1
C22_Witness ==
    /\ report.pc = "done"
    /\ ~report.result.null
    /\ ~report.result.threw
    /\ report.limit = 2
    /\ Len(report.roster) = 3
    /\ \A i \in 1..3 : report.stats[report.roster[i].name].is = "stats"
    /\ <<report.stats[report.roster[1].name].stats["avgPlacement"],
         report.stats[report.roster[2].name].stats["avgPlacement"],
         report.stats[report.roster[3].name].stats["avgPlacement"]>> = <<0, 2, 1>>
    /\ report.result.value["avgPlacement"] =
          <<[name |-> report.roster[1].name, value |-> 0],
            [name |-> report.roster[3].name, value |-> 1]>>

(***************************************************************************)
(* The command log and the operator script that clears the cache log.      *)
(***************************************************************************)

\* logCommandInvocation: one more command_invocations row, true; a store
\* error is logged and answered false
LogCommandInvocation(command, dbOk) ==
    /\ BagCardinality(commandInvocations) < MaxCommands
    /\ commandInvocations' =
          IF dbOk
          THEN BagAdd(commandInvocations, [command |-> command, at |-> now])
          ELSE commandInvocations
    /\ lastOp' = [op |-> "logCommandInvocation", command |-> command,
                  returned |-> dbOk]
    /\ UNCHANGED <<now, guilds, summoners, guildSummoners, rankedSoloMatches,
                   arenaMatches, cacheLogs, runs, runsStarted, purge, calls,
                   process, report, riot>>

\* scripts/clearCacheLogs main: deleteMany({}) on summoner_cache_logs
ClearCacheLogs ==
    /\ cacheLogs' = DeleteMany(cacheLogs, BagToSet(cacheLogs)).table
    /\ lastOp' = [op |-> "clearCacheLogs",
                  count |-> DeleteMany(cacheLogs, BagToSet(cacheLogs)).count]
    /\ UNCHANGED <<svcVars, now, guilds, summoners, guildSummoners,
                   rankedSoloMatches, arenaMatches, runs, runsStarted, purge>>

(***************************************************************************)
(* SpecLogs: one summoner of guild 7, synced once; a pipeline run and the  *)
(* cache-timestamp route append cache-log rows while the clock advances,   *)
(* commands are logged, summoners are removed through the route, the       *)
(* daily purge runs, and the operator may run clearCacheLogs.              *)
(***************************************************************************)
NextLogs ==
    \/ Tick(1)
    \/ StartRunOf(1, 1)
    \/ CheckCached(1)
    \/ CountExisting(1)
    \/ FetchIds(1, <<>>, "ranked_solo")
    \/ FilterNewIds(1)
    \/ AppendCacheLog(1)
    \/ \E dbOk \in BOOLEAN : LogCommandInvocation("stats", dbOk)
    \/ DeleteSummoners(1, API_KEY, "Ann #NA1", 7, TRUE)
    \/ DeleteSummonersAnswer(1, TRUE)
    \/ PostCacheTimestamp(API_KEY, "P1", "Ann #NA1", TRUE)
    \/ CronDaily
    \/ PurgeOldRanked
    \/ PurgeOldArena
    \/ ClearCacheLogs

SpecLogs == InitStore /\ [][NextLogs]_vars

\* every row of the table before the step is a row of it after the step
OnlyAppended(before, after) == before \sqsubseteq after

\* C23 as stated: SummonerCacheLog and CommandInvocation rows are only ever
\* appended; no in-repository process updates or deletes a row of either
\* table, so no step decreases the row count of either table.
C23_LogsNeverShrink ==
    [][/\ OnlyAppended(cacheLogs, cacheLogs')
       /\ OnlyAppended(commandInvocations, commandInvocations')]_vars

\* C23 amended: no route, model operation or scheduled task updates or
\* deletes a SummonerCacheLog or CommandInvocation row; the only step that
\* removes rows is the operator script clearCacheLogs, which deletes every
\* SummonerCacheLog row and leaves the CommandInvocation table alone.
C23_LogsShrinkOnlyByClearScript ==
    [][/\ OnlyAppended(commandInvocations, commandInvocations')
       /\ IF lastOp'.op = "clearCacheLogs"
          THEN cacheLogs' = EmptyBag
          ELSE OnlyAppended(cacheLogs, cacheLogs')]_vars

\* the script deleted two cache-log rows that pipeline runs or requests had
\* appended, while logged commands stayed
C23_Witness ==
    /\ lastOp.op = "clearCacheLogs"
    /\ lastOp.count >= 2
    /\ cacheLogs = EmptyBag
    /\ BagCardinality(commandInvocations) >= 1

RangeDays == {7, 30}
QueueTypes == {"ranked_solo", "arena", "aram"}

\* lowerRange of fetchAllSummonerMatchDataByRange: the local time of the
\* clock, range calendar days earlier
lowerRangeEpoch(clock, range, tz) == setDateDaysBack(clock, range, tz)

\* GET /matches/:summonerPuuid?range=..&queueType=.. arrives: a request the
\* key check rejects is answered at once; else
\* fetchAllSummonerMatchDataByRange reads the clock, fixes lowerRangeEpoch
\* and sends its findMany, all of it before the await
GetMatches(c, apiKey, summonerPuuid, range, queueType) ==
    LET auth == verifyApiKey(apiKey)
    IN /\ calls[c].op = "none"
       /\ calls' = IF auth.next
                   THEN [calls EXCEPT ![c] =
                           [op |-> "getMatches", apiKey |-> apiKey,
                            summonerPuuid |-> summonerPuuid,
                            queueType |-> queueType,
                            lowerRangeEpoch |->
                               lowerRangeEpoch(now, range, process.tz)]]
                   ELSE calls
       /\ lastOp' = IF auth.next
                    THEN [op |-> "getMatchesCall", apiKey |-> apiKey,
                          range |-> range, queueType |-> queueType]
                    ELSE [op |-> "http",
                          route |-> "GET /matches/:summonerPuuid",
                          apiKey |-> apiKey, riotId |-> NoRiotId,
                          guildId |-> NoGuildId, handled |-> FALSE,
                          status |-> auth.status, error |-> "none",
                          found |-> 0]
       /\ UNCHANGED <<process, report, commandInvocations, riot, now, guilds,
                      summoners, guildSummoners, rankedSoloMatches,
                      arenaMatches, cacheLogs, runs, runsStarted, purge>>

\* the findMany of the request is answered from the table as it is now,
\* with the lower bound fixed at arrival: 404 when no row is found, 500 when
\* the store rejects the read, else 200 with the rows
GetMatchesAnswer(c, dbOk) ==
    LET call == calls[c]
        res == readMatches(call.queueType = "arena", call.summonerPuuid,
                           call.lowerRangeEpoch, rankedSoloMatches,
                           arenaMatches)
    IN /\ calls[c].op = "getMatches"
       /\ rankedSoloMatches' = IF dbOk THEN res.ranked
                               ELSE rankedSoloMatches
       /\ arenaMatches' = IF dbOk THEN res.arena ELSE arenaMatches
       /\ calls' = [calls EXCEPT ![c] = IdleCall]
       /\ lastOp' = [op |-> "http", route |-> "GET /matches/:summonerPuuid",
                     apiKey |-> call.apiKey, riotId |-> NoRiotId,
                     guildId |-> NoGuildId, handled |-> TRUE,
                     status |-> CASE ~dbOk -> catchStatus("StoreFailure")
                                  [] res.rows = EmptyBag -> 404
                                  [] OTHER -> 200,
                     error |-> IF ~dbOk THEN "StoreFailure" ELSE "none",
                     found |-> IF dbOk THEN BagCardinality(res.rows)
                               ELSE 0,
                     lowerRangeEpoch |-> call.lowerRangeEpoch]
       /\ UNCHANGED <<process, report, commandInvocations, riot, now, guilds,
                      summoners, guildSummoners, cacheLogs, runs,
                      runsStarted, purge>>

\* fetchSummonerStatsWithName, the per-summoner computation of the report
\* and ranking models: null without handler or without rows, else the stats
\* of the rows read (their number stands for the stats); under a queue key
\* whose value has no fetchMatches it throws before any read
FetchSummonerStatsWithName(puuid, queueType, startEpoch) ==
    LET res == readMatches(queueType = "arena", puuid, startEpoch,
                           rankedSoloMatches, arenaMatches)
        handler == getQueueHandler(queueType)
        handled == ~handler.null /\ handler.fetchMatches
    IN /\ rankedSoloMatches' = IF handled THEN res.ranked
                               ELSE rankedSoloMatches
       /\ arenaMatches' = IF handled THEN res.arena ELSE arenaMatches
       /\ lastOp' = [op |-> "fetchSummonerStatsWithName", puuid |-> puuid,
                     queueType |-> queueType,
                     threw |-> ~handler.null /\ ~handler.fetchMatches,
                     null |-> \/ handler.null
                              \/ (handled /\ res.rows = EmptyBag),
                     totalMatches |-> IF handled
                                      THEN BagCardinality(res.rows) ELSE 0]
       /\ UNCHANGED <<svcVars, now, guilds, summoners, guildSummoners,
                      cacheLogs, runs, runsStarted, purge>>

(***************************************************************************)
(* SpecRoutes: one pipeline run stores match M1 of the summoner of guild   *)
(* 7, synced today, while the clock advances and requests to the summoner, *)
(* guild and match routes and the stat model are served.                   *)
(***************************************************************************)
InitRoutes == Registered({7}, {"P1"}, {"P1"})

NextRoutes ==
    \/ Tick(1)
    \/ StartRunOf(1, 1)
    \/ CheckCached(1)
    \/ CountExisting(1)
    \/ FetchIds(1, <<"M1">>, "ranked_solo")
    \/ FilterNewIds(1)
    \/ \E info \in DetailInfos({RANKED_SOLO_QUEUE_ID, ARENA_QUEUE_ID},
                               {RecentStart}, {Puuids}) :
          ProcessMatch(1, info, TRUE)
    \/ AppendCacheLog(1)
    \/ \E apiKey \in {API_KEY, "wrong"}, range \in RangeDays,
          queueType \in QueueTypes :
          GetMatches(1, apiKey, "P1", range, queueType)
    \/ \E dbOk \in BOOLEAN : GetMatchesAnswer(1, dbOk)
    \/ \E queueType \in QueueTypes \cup {"constructor"},
          range \in RangeDays :
          FetchSummonerStatsWithName("P1", queueType,
                                     Epoch0 - range * SecPerDay)
    \/ PostSummoners(API_KEY, "Bob #KR", 7, "P2", "kr", "none")
    \/ DeleteSummoners(1, API_KEY, "Ann #NA1", 7, TRUE)
    \/ DeleteSummonersAnswer(1, TRUE)
    \/ AddGuildFind(1, GuildName, 8, TRUE)
    \/ AddGuildCreate(1, TRUE)

SpecRoutes == InitRoutes /\ [][NextRoutes]_vars

\* the steps that serve an HTTP request or run a stat model
RouteOps == {"http", "getMatchesCall", "removeSummonerFind", "addGuildFind",
             "addGuild", "fetchSummonerStatsWithName"}

\* C24: no HTTP route creates, deletes or modifies a match row: a step that
\* handles a request, or in which a stat model reads matches, leaves both
\* match tables as they were.
C24_RoutesLeaveMatchRows ==
    [][lastOp'.op \in RouteOps =>
          /\ rankedSoloMatches' = rankedSoloMatches
          /\ arenaMatches' = arenaMatches]_vars

\* the match route answered 200 with a stored row that is still stored
C24_Witness ==
    /\ lastOp.op = "http"
    /\ lastOp.route = "GET /matches/:summonerPuuid"
    /\ lastOp.status = 200
    /\ lastOp.found >= 1
    /\ BagCardinality(rankedSoloMatches) + BagCardinality(arenaMatches) >= 1

(***************************************************************************)
(* SpecPurge: a pipeline run stores matches that started 40 or 31 days ago *)
(* in both tables; the clock advances, the daily and the weekly purge run, *)
(* and either may fail at one of its two delete statements.                *)
(***************************************************************************)
\* a start time that the daily purge called at Epoch0 keeps and the same
\* purge called later deletes
CutoffStart == Epoch0 - daysToKeep * SecPerDay

NextPurge ==
    \/ Tick(1)
    \/ StartRunOf(1, 1)
    \/ CheckCached(1)
    \/ CountExisting(1)
    \/ \E ids \in {<<>>, <<"M1">>} : FetchIds(1, ids, "ranked_solo")
    \/ FilterNewIds(1)
    \/ \E info \in DetailInfos({RANKED_SOLO_QUEUE_ID, ARENA_QUEUE_ID},
                               {OldStart, CutoffStart}, {Puuids}) :
          ProcessMatch(1, info, TRUE)
    \/ AppendCacheLog(1)
    \/ CronDaily
    \/ PurgeOldRanked
    \/ PurgeOldArena
    \/ CronWeekly
    \/ PurgeOrphanRanked
    \/ PurgeOrphanArena
    \/ PurgeFailure
    \/ \E dbOk \in BOOLEAN : ClearMatchesRanked(1, dbOk)
    \/ \E dbOk \in BOOLEAN : ClearMatchesArena(1, dbOk)

SpecPurge == InitPipeline /\ [][NextPurge]_vars

\* the rows of a table that a where clause with this cutoff selects
OldRows(table, cutoff) ==
    {row \in BagToSet(table) : row.game_start_timestamp < cutoff}

\* C25: each retention purge is two independent delete statements, the
\* Ranked-Solo one first and the Arena one second: the first statement
\* leaves the Arena table alone and removes every Ranked-Solo row it
\* selects, the second leaves the Ranked-Solo table alone, and a failure
\* between the two restores nothing and deletes nothing, so the Ranked-Solo
\* table stays purged and the Arena table stays unpurged.
C25_PurgeIsTwoIndependentDeletes ==
    [][/\ lastOp'.op \in {"purgeOldRanked", "purgeOrphanRanked"} =>
             /\ arenaMatches' = arenaMatches
             /\ purge.pc \in {"oldRanked", "orphanRanked"}
             /\ purge'.pc \in {"oldArena", "orphanArena"}
       /\ lastOp'.op = "purgeOldRanked" =>
             /\ OldRows(rankedSoloMatches', purge.cutoff) = {}
             /\ rankedSoloMatches' \sqsubseteq rankedSoloMatches
       /\ lastOp'.op \in {"purgeOldArena", "purgeOrphanArena"} =>
             /\ purge.pc \in {"oldArena", "orphanArena"}
             /\ rankedSoloMatches' = rankedSoloMatches
       /\ lastOp'.op = "purgeFailed" =>
             /\ rankedSoloMatches' = rankedSoloMatches
             /\ arenaMatches' = arenaMatches
             /\ purge'.pc = "idle"]_vars

\* the daily purge failed after its Ranked-Solo delete had removed a row,
\* the clock having advanced since the purge was called: no Ranked-Solo row
\* older than the purge's cutoff is left, the old Arena row is still stored
C25_Witness ==
    /\ lastOp.op = "purgeFailed"
    /\ lastOp.at = "oldArena"
    /\ lastOp.rankedCount >= 1
    /\ lastOp.cutoff < now - daysToKeep * SecPerDay
    /\ OldRows(rankedSoloMatches, lastOp.cutoff) = {}
    /\ OldRows(arenaMatches, lastOp.cutoff) # {}

(***************************************************************************)
(* Resolving a Riot id to a PUUID.  A Riot id is a sequence of characters; *)
(* the characters that matter are a letter, the space, the tab, the line   *)
(* feed and the hash sign.                                                 *)
(***************************************************************************)
Chars == {"a", " ", "\t", "\n", "#"}
RiotIdStrings == SeqsUpTo(Chars, MaxRiotIdLen)

\* \s of a JavaScript regular expression
IsWhitespace(c) == c \in {" ", "\t", "\n"}

\* . of a JavaScript regular expression without the s flag
IsDot(c) == c # "\n"

\* /^.+\s#.+$/.test(riotId)
patternTest(riotId) ==
    \E i \in 2..Len(riotId) - 2 :
       /\ IsWhitespace(riotId[i])
       /\ riotId[i + 1] = "#"
       /\ \A k \in (1..i - 1) \cup (i + 2..Len(riotId)) : IsDot(riotId[k])

\* riotId.split(" #")
RECURSIVE split(_)
split(str) ==
    LET at == {i \in 1..Len(str) - 1 : str[i] = " " /\ str[i + 1] = "#"}
    IN IF at = {} THEN <<str>>
       ELSE LET i == CHOOSE j \in at : \A k \in at : j <= k
            IN <<SubSeq(str, 1, i - 1)>> \o split(SubSeq(str, i + 2, Len(str)))

\* str.trim().length > 0
trimmedNonEmpty(str) == \E i \in 1..Len(str) : ~IsWhitespace(str[i])

\* checkRiotIdFormat: false when the pattern does not match; otherwise
\* whether game name and tag are non-blank, where trim() of an undefined
\* tag raises a TypeError
checkRiotIdFormat(riotId) ==
    IF ~patternTest(riotId)
    THEN [threw |-> FALSE, value |-> FALSE]
    ELSE LET parts == split(riotId)
         IN IF ~trimmedNonEmpty(parts[1])
            THEN [threw |-> FALSE, value |-> FALSE]
            ELSE IF Len(parts) < 2
            THEN [threw |-> TRUE, value |-> FALSE]
            ELSE [threw |-> FALSE, value |-> trimmedNonEmpty(parts[2])]

\* what the account endpoint can answer: a body with a puuid, a body
\* without one, or an error (not found, network)
UpstreamAnswers == {"puuid", "noPuuid", "error"}
Null == "<null>"

\* fetchSummonerPuuidByRiotId: null without upstream call when the format
\* check answers false; the format check runs outside the try block; the
\* upstream's puuid or null, an upstream error being caught and turned
\* into null
fetchSummonerPuuidByRiotId(summonerRiotId, upstream) ==
    LET format == checkRiotIdFormat(summonerRiotId)
    IN IF format.threw
       THEN [threw |-> TRUE, value |-> Null, called |-> FALSE]
       ELSE IF ~format.value
       THEN [threw |-> FALSE, value |-> Null, called |-> FALSE]
       ELSE [threw |-> FALSE,
             value |-> IF upstream = "puuid" THEN "P1" ELSE Null,
             called |-> TRUE]

\* a caller asks for the PUUID of a Riot id
AskPuuid(riotId, upstream) ==
    /\ riot.pc = "idle"
    /\ riot' = [pc |-> "asked", riotId |-> riotId, upstream |-> upstream]
    /\ lastOp' = [op |-> "askPuuid"]
    /\ UNCHANGED <<now, guilds, summoners, guildSummoners, rankedSoloMatches,
                   arenaMatches, cacheLogs, runs, runsStarted, purge, calls,
                   process, report, commandInvocations>>

\* the call returns or raises
ReturnPuuid ==
    /\ riot.pc = "asked"
    /\ riot' = [pc |-> "done", riotId |-> riot.riotId,
                upstream |-> riot.upstream,
                result |-> fetchSummonerPuuidByRiotId(riot.riotId,
                                                      riot.upstream)]
    /\ lastOp' = [op |-> "returnPuuid"]
    /\ UNCHANGED <<now, guilds, summoners, guildSummoners, rankedSoloMatches,
                   arenaMatches, cacheLogs, runs, runsStarted, purge, calls,
                   process, report, commandInvocations>>

NextRiot ==
    \/ \E riotId \in RiotIdStrings, upstream \in UpstreamAnswers :
          AskPuuid(riotId, upstream)
    \/ ReturnPuuid

SpecRiot == Init /\ [][NextRiot]_vars

\* the Riot id has the form "GameName #TAG": a literal " #" with a
\* non-blank game name before it and a non-blank tag after it
WellFormed(riotId) ==
    /\ patternTest(riotId)
    /\ Len(split(riotId)) >= 2
    /\ trimmedNonEmpty(split(riotId)[1])
    /\ trimmedNonEmpty(split(riotId)[2])

\* C26: resolvePuuidByRiotId (fetchSummonerPuuidByRiotId) never raises: for
\* every input string and every upstream outcome it returns the PUUID or
\* absent, and when the format check fails it returns absent without an
\* upstream call.
C26_ResolveNeverRaises ==
    riot.pc = "done" =>
       /\ ~riot.result.threw
       /\ riot.result.value \in Puuids \cup {Null}
       /\ ~WellFormed(riot.riotId) =>
             (riot.result.value = Null /\ ~riot.result.called)

(***************************************************************************)
(* SpecBackfill: the summoner of guild 7 played the Ranked-Solo match M1   *)
(* seven days ago.  The upstream answers every ids request with the        *)
(* matches of the requested queue that started inside the requested time   *)
(* window.  Upstream and store may fail during the first run only.  The    *)
(* scheduler keeps starting runs, one every half day: the clock advances   *)
(* only when the run of the current half day has completed, until M1 is    *)
(* more than 30 days old, the longest window a run requests.               *)
(***************************************************************************)
SkippedStart == Epoch0 - 7 * SecPerDay

\* the upstream's answer to the ids request the run has sent
UpstreamIds(r) ==
    LET run == runs[r]
    IN IF /\ QueueId(run) = RANKED_SOLO_QUEUE_ID
          /\ run.curStart <= SkippedStart
          /\ SkippedStart <= run.curEnd
       THEN <<"M1">>
       ELSE <<>>

\* the upstream's detail of M1
UpstreamDetail ==
    [queueId |-> RANKED_SOLO_QUEUE_ID, gameStartTimestamp |-> SkippedStart,
     participants |-> Puuids]

\* the ticks of the clock until M1 started more than DEFAULT_FETCH_DAYS ago
BackfillTicks ==
    (DEFAULT_FETCH_DAYS * SecPerDay - (Epoch0 - SkippedStart)) \div TickSec + 1

\* the runs the scheduler has started by the time t: one every TickSec
BackfillRuns(t) == (t - Epoch0) \div TickSec + 1

NextBackfill ==
    \/ lastOp.op = "runDone" /\ Tick(BackfillTicks)
    \/ StartRunOf(1, BackfillRuns(now))
    \/ CheckCached(1)
    \/ CountExisting(1)
    \/ \E first \in MatchTables : FetchIds(1, UpstreamIds(1), first)
    \/ FilterNewIds(1)
    \/ runsStarted = 1 /\ FetchIdsFail(1)
    \/ runsStarted = 1 /\ FetchDetailFail(1)
    \/ \E dbOk \in BOOLEAN :
          (runsStarted = 1 \/ dbOk) /\ ProcessMatch(1, UpstreamDetail, dbOk)
    \/ AppendCacheLog(1)

SpecBackfill == InitPipeline /\ [][NextBackfill]_vars

\* C27: every match of a tracked summoner in a cached queue that started
\* within the last 30 days is eventually stored: a match that the first run
\* skipped because its ids fetch, its detail fetch or its save failed is
\* ingested by a later run in which upstream and store respond.  No run
\* requests more than the last 30 days, so the match is stored, if ever,
\* by the time it is 30 days old.
C27_SkippedMatchEventuallyStored ==
    now - SkippedStart > DEFAULT_FETCH_DAYS * SecPerDay =>
       HasMatch(rankedSoloMatches, "M1", "P1")

\* a run in which upstream and store responded has completed, the match is
\* still within the last 30 days, and it is not stored
C27_LaterRunLeftMatchOut ==
    /\ lastOp.op = "runDone"
    /\ runsStarted >= 2
    /\ now - SkippedStart <= DEFAULT_FETCH_DAYS * SecPerDay
    /\ ~HasMatch(rankedSoloMatches, "M1", "P1")

\* C28: a failure of the freshness check, of the existing-row count or of
\* the cache-log append is not isolated: the step ends the run, so that no
\* later summoner of the roster is processed in it, writes nothing, and
\* leaves the process alive because the cron callback catches the error;
\* a batch or match failure, by contrast, leaves the run executing.
C28_StoreFailureEndsRun ==
    /\ [](lastOp.op = "runFailed" =>
            /\ lastOp.at \in {"check", "count", "cachelog"}
            /\ runs[lastOp.run] = IdleRun
            /\ process = RunningProcessIn(process.tz))
    /\ [][/\ lastOp'.op = "runFailed" =>
               /\ cacheLogs' = cacheLogs
               /\ rankedSoloMatches' = rankedSoloMatches
               /\ arenaMatches' = arenaMatches
          /\ lastOp'.op \in {"idsFail", "detailFail", "saveFail"} =>
               runs'[lastOp'.run].pc # "idle"]_vars

\* the cache-log append of the first of two summoners failed: the run is
\* over, the second summoner was not processed and no cache log was written
C28_Witness ==
    /\ lastOp.op = "runFailed"
    /\ lastOp.at = "cachelog"
    /\ lastOp.si = 1
    /\ Cardinality(getUniqueSummoners(summoners)) = 2
    /\ runs[1] = IdleRun
    /\ cacheLogs = EmptyBag

\* why no later run helps, however many follow: once the first run has
\* written the cache log, every freshness check answers "cached", so every
\* later run requests the last day only, which M1 is not in
LaterRunsRequestLastDayOnly ==
    (runsStarted >= 2 /\ runs[1].pc \notin {"idle", "check"}) =>
       /\ runs[1].daysToFetch = RECENT_CACHE_DAYS
       /\ runs[1].newIds = <<>>

(***************************************************************************)
(* SpecOverlap: the summoner of guild 7 has never been cached; hourly      *)
(* ticks start pipeline runs that may execute at the same time.            *)
(***************************************************************************)
NextOverlap ==
    \/ \E r \in Runs : CronHourly(r)
    \/ \E r \in Runs :
          \/ CheckCached(r)
          \/ CountExisting(r)
          \/ \E first \in MatchTables : FetchIds(r, <<>>, first)
          \/ FilterNewIds(r)
          \/ AppendCacheLog(r)

SpecOverlap == InitPipeline /\ [][NextOverlap]_vars

\* the lookback window processSummonerMatches would choose for the summoner
WindowFor(puuid, logs, clock) ==
    daysToFetchFor(checkIfCachedWithinRange(
                      puuid, cutoffDateOf(clock, RECENT_CACHE_DAYS,
                                          process.tz), logs))

\* the run has made the freshness check of the first queue of its current
\* summoner and has not yet made the one of the last queue
BetweenChecks(run) ==
    /\ run.pc # "idle"
    /\ \/ run.qi = 1 /\ run.pc # "check"
       \/ 1 < run.qi /\ run.qi < Len(run.queueIds)
       \/ 1 < run.qi /\ run.qi = Len(run.queueIds) /\ run.pc = "check"

\* C29: within one pipeline run all queues of a summoner are fetched with
\* the same lookback window: between the freshness check of the summoner's
\* first queue and that of its last queue no step changes what the check
\* answers, also when another pipeline run overlaps.
C29_SameWindowForAllQueues ==
    [][\A r \in Runs :
          BetweenChecks(runs[r]) =>
             WindowFor(Summoner(runs[r]).puuid, cacheLogs', now') =
                WindowFor(Summoner(runs[r]).puuid, cacheLogs, now)]_vars

(***************************************************************************)
(* SpecOrphan: guild 7 tracks one summoner; a second one is registered, a  *)
(* pipeline run stores matches, and the weekly orphan purge runs, all      *)
(* interleaved at their store calls.                                       *)
(***************************************************************************)
NextOrphan ==
    \/ AddSummoner("Bob #KR", 7, "P2", "kr", "none")
    \/ StartRun(1)
    \/ CheckCached(1)
    \/ CountExisting(1)
    \/ \E ids \in {<<>>, <<"M1">>},
          first \in MatchTables :
          FetchIds(1, ids, first)
    \/ FilterNewIds(1)
    \/ \E info \in DetailInfos({RANKED_SOLO_QUEUE_ID, ARENA_QUEUE_ID},
                               {RecentStart}, {Puuids}) :
          ProcessMatch(1, info, TRUE)
    \/ AppendCacheLog(1)
    \/ CronWeekly
    \/ PurgeOrphanRanked
    \/ PurgeOrphanArena

SpecOrphan == InitPipeline /\ [][NextOrphan]_vars

\* the rows of the table before the step that are gone after it
Deleted(before, after) ==
    {row \in BagToSet(before) : ~BagIn(row, after)}

\* C30: the orphan purge never deletes a match row of a summoner who is in
\* the roster (the summoners table) at the moment the row is deleted, also
\* when a registration and a pipeline run interleave between the purge's
\* roster read and its delete statements.
C30_OrphanPurgeSparesRoster ==
    [][lastOp'.op \in {"purgeOrphanRanked", "purgeOrphanArena"} =>
          \A row \in Deleted(rankedSoloMatches, rankedSoloMatches')
                        \cup Deleted(arenaMatches, arenaMatches') :
             row.summoner_puuid \notin
                {sm.puuid : sm \in getUniqueSummoners(summoners)}]_vars

====
